---- MODULE Spec2Model ----
(***************************************************************************)
(* A model of the propagation engine of the Huub LCG solver: the trail     *)
(* (solver/engine/trail.rs), the propagator priority queue                 *)
(* (solver/queue.rs) and the oracle bridge (solver/engine.rs), followed by *)
(* the integer encodings (solver/engine/int_var.rs, bool_to_int.rs), the   *)
(* linear views (helpers/linear_transform.rs), the solving loops           *)
(* (solver.rs), the branchers (branchers.rs), the decisions of the model   *)
(* layer (lib.rs) and the linear constraints (constraints/int_linear.rs).  *)
(***************************************************************************)
EXTENDS Integers, Sequences, FiniteSets, TLC

(***************************************************************************)
(* Bounds of the model.                                                    *)
(***************************************************************************)
\* Width of one trail word in bits (u32 in the source, scaled down); a
\* trailed value is two words wide (i64 in the source).
WordBits == 4
\* Maximal number of decision levels the oracle opens.
MaxLevel == 2
\* Backtracks the oracle makes, and levels it opens, when branchers decide.
MaxBacktracks == 2
MaxDepth == 1
MaxWords == 4
MaxTrail == 5
MaxGotos == 2

(***************************************************************************)
(* Machine integers.                                                       *)
(***************************************************************************)
RECURSIVE Pow2(_)
Pow2(n) == IF n = 0 THEN 1 ELSE 2 * Pow2(n - 1)

\* Number of values of a trail word (2^32 in the source).
WordMod == Pow2(WordBits)
\* Number of values of a trailed integer (2^64 in the source).
ValMod == WordMod * WordMod

\* `w as i32` for a trail word w.
AsSigned(w) == IF w >= WordMod \div 2 THEN w - WordMod ELSE w
\* `v as u64` for a trailed value v.
AsUnsigned(v) == v % ValMod
\* `u as i64` for an unsigned double word u.
AsIntVal(u) == IF u >= ValMod \div 2 THEN u - ValMod ELSE u

\* Option<T>: None is the empty set, Some(x) the singleton.
None == {}
Some(x) == {x}
Unwrap(o) == CHOOSE x \in o : TRUE

(***************************************************************************)
(* TrailEvent and its packed representation.                               *)
(***************************************************************************)
SatAssignment(var) == [kind |-> "sat", var |-> var]
IntAssignment(i, v) == [kind |-> "int", i |-> i, v |-> v]

\* TrailEvent::write_trail: the words of an event in undo format.
write_trail(e) ==
    IF e.kind = "sat" THEN << e.var % WordMod >>
    ELSE << AsUnsigned(e.v) % WordMod,
            AsUnsigned(e.v) \div WordMod,
            (WordMod - e.i) % WordMod >>

\* TrailEvent::write_rev_trail: the words of an event in redo format.
write_rev_trail(e) ==
    IF e.kind = "sat" THEN << e.var % WordMod >>
    ELSE << (WordMod - e.i) % WordMod,
            AsUnsigned(e.v) \div WordMod,
            AsUnsigned(e.v) % WordMod >>

\* `-(raw as i32) as usize`: the index of a trailed integer; a positive word
\* wraps around to an index beyond every vector (modelled as -1).
raw_index(w) == IF AsSigned(w) > 0 THEN -1 ELSE 0 - AsSigned(w)

\* The mutant reads the low word only.
int_from_trail_low(raw) ==
    IntAssignment(raw_index(raw[3]), AsIntVal(raw[1]))

\* TrailEvent::int_from_trail
int_from_trail(raw) ==
    IntAssignment(raw_index(raw[3]), AsIntVal(raw[2] * WordMod + raw[1]))

\* TrailEvent::int_from_rev_trail
int_from_rev_trail(raw) ==
    IntAssignment(raw_index(raw[1]), AsIntVal(raw[2] * WordMod + raw[3]))

\* TrailEvent::sat_from_raw
sat_from_raw(w) == SatAssignment(w)

\* `(w as i32).is_positive()`
is_positive(w) == AsSigned(w) > 0

\* Overwrite the words of s from (0-based) offset p with ws.
WriteAt(s, p, ws) ==
    [k \in 1..Len(s) |->
        IF k > p /\ k <= p + Len(ws) THEN ws[k - p] ELSE s[k]]

(***************************************************************************)
(* The problem instance: the Boolean variables of the oracle and the       *)
(* trailed integers of the engine.                                         *)
(***************************************************************************)
\* Oracle variables 1..NumVars are observed by the engine.
NumVars == 3
Vars == 1..NumVars
\* A literal is a non-zero integer: v or -v (RawLit).
Lits == {l \in (0 - NumVars)..NumVars : l # 0}
LitVar(l) == IF l < 0 THEN 0 - l ELSE l
is_negated(l) == l < 0

\* Trailed integers: Trail::CURRENT_BRANCHER, then the upper and the lower
\* bound of the integer variable in the order IntVar::new_in tracks them.
CURRENT_BRANCHER == 0
UpperBoundRef == 1
LowerBoundRef == 2
NumTrailed == 3
TrailedInts == 0..(NumTrailed - 1)

(***************************************************************************)
(* Trail (trail.rs).  A Trail value is a record with the fields of the     *)
(* struct; `panic` is set when an operation aborts the process (an index   *)
(* out of range or an arithmetic underflow), after which nothing changes.  *)
(***************************************************************************)
BoolStore(v, r) == [value |-> v, restore |-> r]

Zeros(n) == [k \in 1..n |-> 0]

\* Trail::sat_index together with the bounds check of the indexing.
sat_index_ok(var) == var \in Vars
int_index_ok(i) == i \in TrailedInts

\* Trail::decision_level
decision_level(t) == Len(t.prev_len)

\* Trail::get_sat_value
get_sat_value(t, lit) ==
    IF ~sat_index_ok(LitVar(lit)) THEN None
    ELSE LET x == t.sat_store[LitVar(lit)].value IN
         IF x = None THEN None
         ELSE IF is_negated(lit) THEN Some(~Unwrap(x)) ELSE x

\* Trail::get_trailed_int
get_trailed_int(t, i) == t.int_value[i]

\* Trail::push_trail
push_trail(t, e) ==
    LET n == IF e.kind = "sat" THEN 1 ELSE 3
        ext == t.trail \o Zeros(n)
    IN IF t.pos > Len(t.trail) THEN [t EXCEPT !.panic = TRUE]
       ELSE [t EXCEPT !.trail = WriteAt(ext, t.pos, write_trail(e)),
                      !.pos = Len(ext)]

\* Trail::assign_lit (the returned previous value is assign_lit_prev)
assign_lit_prev(t, lit) == t.sat_store[LitVar(lit)].value
assign_lit(t, lit) ==
    LET var == LitVar(lit)
        x == t.sat_store[var].value
        t1 == [t EXCEPT !.sat_store[var].value = Some(~is_negated(lit))]
    IN IF t.panic THEN t
       ELSE IF x = None /\ t.prev_len # << >>
            THEN push_trail(t1, SatAssignment(var))
            ELSE t1

\* The mutant records the previous value at the root as well.
set_trailed_int_at_root(t, i, v) ==
    IF t.panic \/ t.int_value[i] = v THEN t
    ELSE push_trail([t EXCEPT !.int_value[i] = v],
                    IntAssignment(i, t.int_value[i]))

\* Trail::set_trailed_int (the returned previous value is the old content)
set_trailed_int(t, i, v) ==
    LET old == t.int_value[i]
        t1 == [t EXCEPT !.int_value[i] = v]
    IN IF t.panic \/ old = v THEN t
       ELSE IF t.prev_len # << >>
            THEN push_trail(t1, IntAssignment(i, old))
            ELSE t1

\* Trail::set_trailed_int: the value returned.
set_trailed_int_prev(t, i, v) == IF t.int_value[i] = v THEN v ELSE t.int_value[i]

\* Trail::undo::<RESTORE>: the trail afterwards and the event undone.
undo(t, RESTORE) ==
    IF t.panic \/ t.pos = 0 THEN [t |-> t, event |-> None]
    ELSE IF t.pos > Len(t.trail)
    THEN [t |-> [t EXCEPT !.panic = TRUE], event |-> None]
    ELSE IF is_positive(t.trail[t.pos])
    THEN LET e == sat_from_raw(t.trail[t.pos])
             t1 == [t EXCEPT !.pos = t.pos - 1]
         IN IF ~sat_index_ok(e.var)
            THEN [t |-> [t1 EXCEPT !.panic = TRUE], event |-> None]
            ELSE LET b == t.sat_store[e.var].value
                     st == IF RESTORE THEN BoolStore(None, b)
                           ELSE BoolStore(None, t.sat_store[e.var].restore)
                 IN [t |-> [t1 EXCEPT !.sat_store[e.var] = st],
                     event |-> Some(e)]
    ELSE IF t.pos < 3
    THEN [t |-> [t EXCEPT !.panic = TRUE], event |-> None]
    ELSE LET p == t.pos - 3
             e == int_from_trail(SubSeq(t.trail, p + 1, p + 3))
             t1 == [t EXCEPT !.pos = p]
         IN IF ~int_index_ok(e.i)
            THEN [t |-> [t1 EXCEPT !.panic = TRUE], event |-> None]
            ELSE LET x == t.int_value[e.i]
                     tr == IF RESTORE
                           THEN WriteAt(t.trail, p,
                                        write_rev_trail(IntAssignment(e.i, x)))
                           ELSE t.trail
                 IN [t |-> [t1 EXCEPT !.trail = tr, !.int_value[e.i] = e.v],
                     event |-> Some(e)]

\* Trail::redo: the trail afterwards and the event redone.
redo(t) ==
    IF t.panic \/ t.pos = Len(t.trail) THEN [t |-> t, event |-> None]
    ELSE IF t.pos > Len(t.trail)
    THEN [t |-> [t EXCEPT !.panic = TRUE], event |-> None]
    ELSE IF is_positive(t.trail[t.pos + 1])
    THEN LET e == sat_from_raw(t.trail[t.pos + 1])
             t1 == [t EXCEPT !.pos = t.pos + 1]
         IN IF ~sat_index_ok(e.var)
            THEN [t |-> [t1 EXCEPT !.panic = TRUE], event |-> None]
            ELSE LET st == t.sat_store[e.var]
                 IN [t |-> [t1 EXCEPT !.sat_store[e.var] =
                                          BoolStore(st.restore, st.value)],
                     event |-> Some(e)]
    ELSE IF t.pos + 3 > Len(t.trail)
    THEN [t |-> [t EXCEPT !.panic = TRUE], event |-> None]
    ELSE LET p == t.pos + 3
             e == int_from_rev_trail(SubSeq(t.trail, p - 2, p))
             t1 == [t EXCEPT !.pos = p]
         IN IF ~int_index_ok(e.i)
            THEN [t |-> [t1 EXCEPT !.panic = TRUE], event |-> None]
            ELSE LET x == t.int_value[e.i]
                 IN [t |-> [t1 EXCEPT
                              !.trail = WriteAt(t.trail, p - 3,
                                          write_trail(IntAssignment(e.i, x))),
                              !.int_value[e.i] = e.v],
                     event |-> Some(e)]

\* The loops of Trail::goto_assign_lit.
\* (r is what redo, respectively undo, returned in this turn of the loop.)
RECURSIVE redo_until(_, _)
redo_until_event(r, var) ==
    IF r.event = None THEN r.t
    ELSE IF Unwrap(r.event).kind = "sat" /\ Unwrap(r.event).var = var
         THEN undo(r.t, TRUE).t
    ELSE redo_until(r.t, var)
redo_until(t, var) == redo_until_event(redo(t), var)

RECURSIVE undo_until(_, _)
undo_until_event(r, var) ==
    IF r.event = None THEN r.t
    ELSE IF Unwrap(r.event).kind = "sat" /\ Unwrap(r.event).var = var
         THEN r.t
    ELSE undo_until(r.t, var)
undo_until(t, var) == undo_until_event(undo(t, TRUE), var)

\* Trail::goto_assign_lit
goto_assign_lit(t, lit) ==
    IF t.panic THEN t
    ELSE IF t.sat_store[LitVar(lit)].value = None
         THEN redo_until(t, LitVar(lit))
         ELSE undo_until(t, LitVar(lit))

\* The loops of Trail::notify_backtrack.
RECURSIVE undo_to(_, _)
undo_to(t, len) ==
    IF t.panic \/ t.pos <= len THEN t ELSE undo_to(undo(t, FALSE).t, len)

RECURSIVE redo_to(_, _)
redo_to(t, len) ==
    IF t.panic \/ t.pos >= len \/ t.pos = Len(t.trail) THEN t
    ELSE redo_to(redo(t).t, len)

\* The end of Trail::notify_backtrack: `self.trail.truncate(len)`.
truncate(t, len) ==
    IF t.panic THEN t ELSE [t EXCEPT !.trail = SubSeq(t.trail, 1, len)]

\* Trail::notify_backtrack
Trail_notify_backtrack(t, level) ==
    IF t.panic \/ level >= Len(t.prev_len) THEN t
    ELSE truncate(IF t.prev_len[level + 1] <= t.pos
                  THEN undo_to([t EXCEPT !.prev_len = SubSeq(t.prev_len, 1, level)],
                               t.prev_len[level + 1])
                  ELSE redo_to([t EXCEPT !.prev_len = SubSeq(t.prev_len, 1, level)],
                               t.prev_len[level + 1]),
                  t.prev_len[level + 1])

\* Trail::notify_new_decision_level
Trail_notify_new_decision_level(t) ==
    IF t.panic THEN t
    ELSE [t EXCEPT !.prev_len = Append(t.prev_len, Len(t.trail))]


(***************************************************************************)
(* The integer variable of the instance (int_var.rs): domain {1,2,4} kept  *)
(* as a list of ranges, eager order literals (variable 1 is x<2, variable  *)
(* 2 is x<4) and a lazy direct encoding (variable 3 becomes x=2 when it    *)
(* is first requested).                                                    *)
(***************************************************************************)
Domain == << <<1, 2>>, <<4, 4>> >>
DomainLb == Domain[1][1]
DomainUb == Domain[Len(Domain)][2]
\* OrderStorage::Eager.storage: the variables of the order literals.
OrderVars == <<1, 2>>
\* The variable DirectStorage::Lazy allocates for the interior value.
DirectVar == 3
DirectVal == 2

Less(v) == [m |-> "Less", v |-> v]
GreaterEq(v) == [m |-> "GreaterEq", v |-> v]
Eq(v) == [m |-> "Eq", v |-> v]
NotEq(v) == [m |-> "NotEq", v |-> v]

\* impl Not for LitMeaning
NotMeaning(l) ==
    CASE l.m = "Eq" -> NotEq(l.v)
      [] l.m = "NotEq" -> Eq(l.v)
      [] l.m = "GreaterEq" -> Less(l.v)
      [] l.m = "Less" -> GreaterEq(l.v)

\* The loop of IntVar::lit_meaning over the ranges of the domain.
RECURSIVE meaning_value(_, _)
meaning_value(offset, k) ==
    LET r_len == Domain[k][2] - Domain[k][1] + 1 IN
    IF offset < r_len THEN Domain[k][1] + offset
    ELSE meaning_value(offset - r_len, k + 1)

\* IntVar::lit_meaning (eager order literals)
lit_meaning(lit) ==
    LET idx == CHOOSE k \in 1..Len(OrderVars) : OrderVars[k] = LitVar(lit)
        l == Less(meaning_value(idx, 1))
    IN IF is_negated(lit) THEN NotMeaning(l) ELSE l

\* BoolToIntMap::get: the eager range ends at the last order variable; any
\* later variable is looked up in the lazy map.
bool_to_int_get(lazy, var) ==
    IF var <= OrderVars[Len(OrderVars)]
    THEN IF var >= OrderVars[1] THEN Some([meaning |-> None]) ELSE None
    ELSE IF \E e \in lazy : e.var = var
         THEN Some([meaning |->
                      Some((CHOOSE e \in lazy : e.var = var).meaning)])
         ELSE None

\* IntVar::get_bounds (eager order storage)
get_bounds(t) ==
    [lb |-> get_trailed_int(t, LowerBoundRef),
     ub |-> get_trailed_int(t, UpperBoundRef)]

\* IntVar::tighten_upper_bound
tighten_upper_bound(val) ==
    IF Len(Domain) = 1 THEN val
    ELSE LET ks == {k \in 1..Len(Domain) : val >= Domain[k][1]}
             k == CHOOSE k \in ks : \A j \in ks : j <= k
         IN IF val > Domain[k][2] THEN Domain[k][2] ELSE val

\* IntVar::notify_lower_bound (eager order storage)
notify_lower_bound(t, val) == set_trailed_int(t, LowerBoundRef, val)

\* IntVar::notify_upper_bound (eager order storage)
notify_upper_bound(t, val) == set_trailed_int(t, UpperBoundRef, val)

\* LitMeaning::defining_clauses for the direct literal, with prev the
\* literal x<2 and next the literal x<4.
defining_clauses(lit, prev, next) ==
    << <<0 - lit, 0 - prev>>, <<0 - lit, next>>, <<lit, prev, 0 - next>> >>


(***************************************************************************)
(* Propagators of the instance, their priorities and subscriptions.        *)
(***************************************************************************)
NumProps == 3
Props == 0..(NumProps - 1)
\* PriorityLevel as usize: Lowest = 0 .. Immediate = 5.
NumPriorityLevels == 6
\* State::propagator_priority: propagators 0 and 1 are Low, 2 is Highest.
propagator_priority == [p \in Props |-> IF p = 2 THEN 4 ELSE 1]
\* State::bool_activation: propagator 2 is woken by variable 1.
bool_activation(var) == IF var = 1 THEN <<2>> ELSE << >>
\* State::int_activation of the integer variable, in subscription order.
int_activation ==
    << [prop |-> 0, cond |-> "Domain"],
       [prop |-> 1, cond |-> "Bounds"],
       [prop |-> 2, cond |-> "Fixed"] >>

\* ActivationList::activated_by: the subscriptions an event triggers.
activates(event, cond) ==
    CASE event = "Fixed" -> TRUE
      [] event = "LowerBound" -> cond \in {"LowerBound", "Bounds", "Domain"}
      [] event = "UpperBound" -> cond \in {"UpperBound", "Bounds", "Domain"}
      [] event = "Bounds" -> cond \in {"LowerBound", "UpperBound", "Bounds", "Domain"}
      [] event = "Domain" -> cond = "Domain"

RECURSIVE activated_from(_, _)
activated_from(event, k) ==
    IF k > Len(int_activation) THEN << >>
    ELSE (IF activates(event, int_activation[k].cond)
          THEN << int_activation[k].prop >> ELSE << >>)
         \o activated_from(event, k + 1)
activated_by(event) == activated_from(event, 1)

(***************************************************************************)
(* PriorityQueue (queue.rs): one vector per priority level.                *)
(***************************************************************************)
EmptyQueue == [i \in 1..NumPriorityLevels |-> << >>]

\* PriorityQueue::insert
insert(q, priority, elem) ==
    [q EXCEPT ![priority + 1] = Append(q[priority + 1], elem)]

\* The pop of a first-in first-out level: the oldest element of the level.
pop_fifo(q) ==
    LET levels == {i \in 1..NumPriorityLevels : q[i] # << >>} IN
    IF levels = {} THEN [q |-> q, elem |-> None]
    ELSE LET i == CHOOSE i \in levels : \A j \in levels : j <= i
         IN [q |-> [q EXCEPT ![i] = Tail(q[i])], elem |-> Some(Head(q[i]))]

\* PriorityQueue::pop: the first non-empty vector from the highest level
\* down, and Vec::pop of it (its last element).
pop(q) ==
    LET levels == {i \in 1..NumPriorityLevels : q[i] # << >>} IN
    IF levels = {} THEN [q |-> q, elem |-> None]
    ELSE LET i == CHOOSE i \in levels : \A j \in levels : j <= i
         IN [q |-> [q EXCEPT ![i] = SubSeq(q[i], 1, Len(q[i]) - 1)],
             elem |-> Some(q[i][Len(q[i])])]

(***************************************************************************)
(* State (engine.rs).  A State value is a record with the fields of the    *)
(* struct that change during search.                                       *)
(***************************************************************************)
\* The meaning of `lit`, given the meaning the map stores for its variable.
meaning_of(stored, lit) ==
    IF stored # None
    THEN (IF is_negated(lit) THEN NotMeaning(Unwrap(stored)) ELSE Unwrap(stored))
    ELSE lit_meaning(lit)

\* The match of determine_int_event with the Fixed test of the lower bound
\* made against the old lower bound instead of the upper bound.
int_event_against_own_bound(s, b, meaning) ==
    CASE meaning.m = "Eq" ->
           IF meaning.v = b.lb \/ meaning.v = b.ub
              \/ meaning.v < b.lb \/ meaning.v > b.ub
           THEN [s |-> s, event |-> None]
           ELSE [s |-> [s EXCEPT !.trail =
                          notify_upper_bound(
                              notify_lower_bound(s.trail, meaning.v), meaning.v)],
                 event |-> Some("Fixed")]
      [] meaning.m = "NotEq" ->
           IF meaning.v < b.lb \/ meaning.v > b.ub
           THEN [s |-> s, event |-> None]
           ELSE [s |-> s, event |-> Some("Domain")]
      [] meaning.m = "GreaterEq" ->
           IF meaning.v <= b.lb THEN [s |-> s, event |-> None]
           ELSE [s |-> [s EXCEPT !.trail = notify_lower_bound(s.trail, meaning.v)],
                 event |-> Some(IF meaning.v = b.lb THEN "Fixed" ELSE "LowerBound")]
      [] meaning.m = "Less" ->
           IF tighten_upper_bound(meaning.v - 1) >= b.ub
           THEN [s |-> s, event |-> None]
           ELSE [s |-> [s EXCEPT !.trail =
                          notify_upper_bound(s.trail,
                                             tighten_upper_bound(meaning.v - 1))],
                 event |-> Some(IF tighten_upper_bound(meaning.v - 1) = b.lb
                                THEN "Fixed" ELSE "UpperBound")]

\* The match of State::determine_int_event on the meaning, b being the
\* bounds of the variable: the state afterwards and the event.
int_event(s, b, meaning) ==
    CASE meaning.m = "Eq" ->
           IF meaning.v = b.lb \/ meaning.v = b.ub
              \/ meaning.v < b.lb \/ meaning.v > b.ub
           THEN [s |-> s, event |-> None]
           ELSE [s |-> [s EXCEPT !.trail =
                          notify_upper_bound(
                              notify_lower_bound(s.trail, meaning.v), meaning.v)],
                 event |-> Some("Fixed")]
      [] meaning.m = "NotEq" ->
           IF meaning.v < b.lb \/ meaning.v > b.ub
           THEN [s |-> s, event |-> None]
           ELSE [s |-> s, event |-> Some("Domain")]
      [] meaning.m = "GreaterEq" ->
           IF meaning.v <= b.lb THEN [s |-> s, event |-> None]
           ELSE [s |-> [s EXCEPT !.trail = notify_lower_bound(s.trail, meaning.v)],
                 event |-> Some(IF meaning.v = b.ub THEN "Fixed" ELSE "LowerBound")]
      [] meaning.m = "Less" ->
           IF tighten_upper_bound(meaning.v - 1) >= b.ub
           THEN [s |-> s, event |-> None]
           ELSE [s |-> [s EXCEPT !.trail =
                          notify_upper_bound(s.trail,
                                             tighten_upper_bound(meaning.v - 1))],
                 event |-> Some(IF tighten_upper_bound(meaning.v - 1) = b.lb
                                THEN "Fixed" ELSE "UpperBound")]

\* State::determine_int_event
determine_int_event(s, lit) ==
    IF bool_to_int_get(s.bool_to_int, LitVar(lit)) = None
    THEN [s |-> s, event |-> None]
    ELSE int_event(s, get_bounds(s.trail),
                   meaning_of(Unwrap(bool_to_int_get(s.bool_to_int,
                                                     LitVar(lit))).meaning, lit))

\* The loop shared by enqueue_int_propagators and enqueue_propagators.
RECURSIVE enqueue_all(_, _, _)
enqueue_all(s, props, skip) ==
    IF props = << >> THEN s
    ELSE enqueue_all(IF Some(Head(props)) # skip /\ ~s.enqueued[Head(props)]
                     THEN [s EXCEPT
                             !.propagator_queue =
                                 insert(s.propagator_queue,
                                        propagator_priority[Head(props)],
                                        Head(props)),
                             !.enqueued[Head(props)] = TRUE]
                     ELSE s,
                     Tail(props), skip)

\* State::enqueue_int_propagators
enqueue_int_propagators(s, event, skip) ==
    enqueue_all(s, activated_by(event), skip)

\* The integer consequences in State::enqueue_propagators, r being what
\* determine_int_event returned.
enqueue_event(r, skip) ==
    IF r.event = None THEN r.s
    ELSE enqueue_int_propagators(r.s, Unwrap(r.event), skip)

\* State::enqueue_propagators
enqueue_propagators(s, lit, skip) ==
    enqueue_event(
        determine_int_event(enqueue_all(s, bool_activation(LitVar(lit)), skip), lit),
        skip)

\* The loop of State::notify_backtrack that empties the propagator queue
\* (r is what pop returned in this turn).
RECURSIVE drain(_)
drain_popped(s, r) ==
    IF r.elem = None THEN s
    ELSE drain([s EXCEPT !.propagator_queue = r.q,
                         !.enqueued[Unwrap(r.elem)] = FALSE])
drain(s) == drain_popped(s, pop(s.propagator_queue))


\* SolverConfiguration of the instance.
MaxConflicts == 2
VsidsAfter == 1
config == [vsids_after |-> Some(VsidsAfter), vsids_only |-> FALSE,
           toggle_vsids |-> FALSE]

EmptyReasons == [l \in Lits |-> None]

\* The statistics and the search mode at the end of State::notify_backtrack.
count_conflict(s) ==
    [s EXCEPT !.statistics.conflicts = @ + 1,
              !.vsids = IF s.config.vsids_after # None
                           /\ ~s.config.vsids_only
                           /\ ~s.config.toggle_vsids
                           /\ s.statistics.conflicts + 1 > Unwrap(s.config.vsids_after)
                        THEN TRUE ELSE @]
count_restart(s, level) ==
    [s EXCEPT !.statistics.restarts = @ + 1,
              !.vsids = IF s.config.toggle_vsids /\ ~s.config.vsids_only
                        THEN ~@ ELSE @,
              !.reason_map = IF level = 0 THEN EmptyReasons ELSE @]
count_backtrack(s, ARTIFICIAL, level, restart) ==
    IF ARTIFICIAL THEN s
    ELSE IF restart THEN count_restart(count_conflict(s), level)
    ELSE count_conflict(s)

\* The mutant also clears the clause buffer and the reason map.
State_notify_backtrack_reset_all(s, ARTIFICIAL, level, restart) ==
    count_backtrack(
        drain([s EXCEPT !.failed = FALSE, !.conflict = None,
                        !.propagation_queue = << >>,
                        !.clauses = << >>, !.reason_map = EmptyReasons,
                        !.trail = Trail_notify_backtrack(s.trail, level)]),
        ARTIFICIAL, level, restart)

\* The mutant leaves the failed flag as it is.
State_notify_backtrack_keep_failed(s, ARTIFICIAL, level, restart) ==
    count_backtrack(
        drain([s EXCEPT !.conflict = None,
                        !.propagation_queue = << >>,
                        !.trail = Trail_notify_backtrack(s.trail, level)]),
        ARTIFICIAL, level, restart)

\* State::notify_backtrack::<ARTIFICIAL>
State_notify_backtrack(s, ARTIFICIAL, level, restart) ==
    count_backtrack(
        drain([s EXCEPT !.failed = FALSE, !.conflict = None,
                        !.propagation_queue = << >>,
                        !.trail = Trail_notify_backtrack(s.trail, level)]),
        ARTIFICIAL, level, restart)

\* State::notify_new_decision_level
State_notify_new_decision_level(s) ==
    LET t == Trail_notify_new_decision_level(s.trail)
        new_level == decision_level(t)
    IN [s EXCEPT !.trail = t,
                 !.statistics.peak_depth =
                     IF new_level > s.statistics.peak_depth
                     THEN new_level ELSE s.statistics.peak_depth]

(***************************************************************************)
(* Reasons (propagator.rs).  A Reason is a record [kind, prop, data, lits]; *)
(* a built reason is Ok(reason), Err(TRUE) or Err(FALSE).                  *)
(***************************************************************************)
Lazy(prop, data) == [kind |-> "Lazy", prop |-> prop, data |-> data, lits |-> << >>]
Eager(lits) == [kind |-> "Eager", prop |-> 0, data |-> 0, lits |-> lits]
Simple(lit) == [kind |-> "Simple", prop |-> 0, data |-> 0, lits |-> <<lit>>]
Ok(r) == [ok |-> TRUE, reason |-> Some(r), err |-> FALSE]
Err(b) == [ok |-> FALSE, reason |-> None, err |-> b]

\* Boolean views: a literal, or one of the two constants.
ViewLit(l) == [const |-> FALSE, lit |-> l, val |-> FALSE]
ViewConst(b) == [const |-> TRUE, lit |-> 0, val |-> b]

RECURSIVE view_lits(_)
view_lits(views) ==
    IF views = << >> THEN << >>
    ELSE (IF Head(views).const THEN << >> ELSE << Head(views).lit >>)
         \o view_lits(Tail(views))

\* The conjunction built with a constant-false view taken for one that
\* needs no reason.
from_iter_lenient(views) ==
    CASE Len(view_lits(views)) = 0 -> Err(TRUE)
      [] Len(view_lits(views)) = 1 -> Ok(Simple(view_lits(views)[1]))
      [] OTHER -> Ok(Eager(view_lits(views)))

\* Reason::from_iter
from_iter(views) ==
    IF \E k \in DOMAIN views : views[k].const /\ ~views[k].val
    THEN Err(FALSE)
    ELSE LET lits == view_lits(views) IN
         CASE Len(lits) = 0 -> Err(TRUE)
           [] Len(lits) = 1 -> Ok(Simple(lits[1]))
           [] OTHER -> Ok(Eager(lits))

\* The literals of the Boolean variables that are true in the trail, in
\* variable order, leaving out one variable.
RECURSIVE true_lits(_, _, _)
true_lits(t, var, except) ==
    IF var > NumVars THEN << >>
    ELSE LET x == t.sat_store[var].value IN
         (IF var = except \/ x = None THEN << >>
          ELSE IF Unwrap(x) THEN <<var>> ELSE <<0 - var>>)
         \o true_lits(t, var + 1, except)

\* Propagator::explain of the propagators of the instance: the conjunction
\* of the literals that hold in the trail as it is positioned at the call.
explain(s, prop, lit, data) ==
    true_lits(s.trail, 1, IF lit = None THEN 0 ELSE LitVar(Unwrap(lit)))

Negate(lits) == [k \in DOMAIN lits |-> 0 - lits[k]]
Chain(lits, lit) == IF lit = None THEN lits ELSE Append(lits, Unwrap(lit))

\* Reason::explain
Reason_explain(s, reason, lit) ==
    IF reason.kind = "Lazy"
    THEN Chain(Negate(explain(s, reason.prop, lit, reason.data)), lit)
    ELSE Chain(Negate(reason.lits), lit)

\* State::register_reason; Err(false) is unreachable!("invalid reason"),
\* an abort, kept in the flag of the trail.
register_reason(s, lit, built_reason) ==
    IF built_reason.ok
    THEN [s EXCEPT !.reason_map[lit] = built_reason.reason]
    ELSE IF built_reason.err
    THEN [s EXCEPT !.reason_map[lit] = None]
    ELSE [s EXCEPT !.trail.panic = TRUE]

\* Conflict::new; `panic` stands for "constructing empty conflict" and for
\* unreachable!("invalid reason").
Conflict_new(subject, built_reason) ==
    IF built_reason.ok
    THEN [subject |-> subject, reason |-> Unwrap(built_reason.reason),
          panic |-> FALSE]
    ELSE IF built_reason.err /\ subject # None
    THEN [subject |-> None, reason |-> Simple(0 - Unwrap(subject)),
          panic |-> FALSE]
    ELSE [subject |-> None, reason |-> Eager(<< >>), panic |-> TRUE]


(***************************************************************************)
(* Literals of the integer variable (int_var.rs).                          *)
(***************************************************************************)
\* OrderStorage::resolve_val: the offset of the order literal for `< val`.
RECURSIVE resolve_val(_, _, _)
resolve_val(val, k, offset) ==
    IF val < Domain[k][1] THEN offset
    ELSE IF val <= Domain[k][2] THEN offset + val - Domain[k][1]
    ELSE resolve_val(val, k + 1, offset + Domain[k][2] - Domain[k][1] + 1)

\* IntVar::bool_lit for the meaning Less(i) on the eager order encoding.
bool_lit_less(i) ==
    IF i <= DomainLb THEN ViewConst(FALSE)
    ELSE IF i > DomainUb THEN ViewConst(TRUE)
    ELSE ViewLit(OrderVars[resolve_val(i, 1, -1) + 1])

(***************************************************************************)
(* Solving context: the facade handed to propagators.  What a propagator   *)
(* does when it runs is an input: a behaviour [act, lit, rk].              *)
(***************************************************************************)
Behaviour(act, lit) == [act |-> act, lit |-> lit]
\* Propagator 0 may set the direct literal, propagator 1 may decide the
\* first order literal, propagator 2 may refute the second order literal
\* or report a conflict.
Behaviours(prop) ==
    {Behaviour("nop", 0)}
    \cup CASE prop = 0 -> {Behaviour("set", DirectVar)}
           [] prop = 1 -> {Behaviour("set", OrderVars[1])}
           [] OTHER -> {Behaviour("set", 0 - OrderVars[2]), Behaviour("fail", 0)}
\* Propagator 1 explains with the literals that hold when it propagates,
\* propagators 0 and 2 defer their explanations.
ReasonKind(prop) == IF prop = 1 THEN "Views" ELSE "Lazy"

\* SolvingContext::get_intref_lit for the meaning Eq(DirectVal): the direct
\* literal is created on first use and its defining clauses are queued.
get_intref_lit(s) ==
    IF \E e \in s.bool_to_int : e.var = DirectVar THEN s
    ELSE [s EXCEPT
            !.bool_to_int = @ \cup {[var |-> DirectVar, meaning |-> Eq(DirectVal)]},
            !.clauses = @ \o defining_clauses(DirectVar, OrderVars[1], OrderVars[2])]

\* The reason builder a propagator passes along with a change.
build_reason(s, prop, lit) ==
    IF ReasonKind(prop) = "Lazy" THEN Ok(Lazy(prop, 0))
    ELSE from_iter(<<ViewConst(TRUE)>>
                   \o [k \in DOMAIN true_lits(s.trail, 1, LitVar(lit)) |->
                         ViewLit(true_lits(s.trail, 1, LitVar(lit))[k])])

\* SolvingContext::set_bool: the state afterwards and the conflict, if any.
set_bool(s, current_prop, lit) ==
    CASE get_sat_value(s.trail, lit) = Some(TRUE) -> [s |-> s, conflict |-> None]
      [] get_sat_value(s.trail, lit) = Some(FALSE) ->
           [s |-> s,
            conflict |-> Some(Conflict_new(Some(lit),
                                           build_reason(s, current_prop, lit)))]
      [] OTHER ->
           [s |-> enqueue_propagators(
                      [register_reason(s, lit, build_reason(s, current_prop, lit))
                         EXCEPT !.propagation_queue = Append(@, lit),
                                !.trail = assign_lit(s.trail, lit)],
                      lit, Some(current_prop)),
            conflict |-> None]

\* What a propagator returns when it reports a conflict explained by
\* `built`; it reports none when it has nothing to explain it with.
fail(s, built) ==
    IF built.ok THEN [s |-> s, conflict |-> Some(Conflict_new(None, built))]
    ELSE [s |-> s, conflict |-> None]

\* Propagator::propagate of propagator `prop` behaving as `b`.
propagate_prop(s, prop, b) ==
    CASE b.act = "set" ->
           set_bool(IF LitVar(b.lit) = DirectVar THEN get_intref_lit(s) ELSE s,
                    prop, b.lit)
      [] b.act = "fail" -> fail(s, build_reason(s, prop, 0))
      [] OTHER -> [s |-> s, conflict |-> None]

\* A run of SolvingContext::run_propagators: the propagator and whether it
\* reported a conflict.
Run(prop, res) == [prop |-> prop, conflict |-> res.conflict # None]

\* SolvingContext::run_propagators: the state afterwards and the list of
\* the runs.  (r is what pop returned, res what the propagator returned.)
RECURSIVE run_propagators(_, _, _)
run_result(res, beh, runs) ==
    IF res.conflict = None THEN run_propagators(res.s, beh, runs)
    ELSE [s |-> [res.s EXCEPT
                   !.conflict = Some(Reason_explain(res.s,
                                                    Unwrap(res.conflict).reason,
                                                    Unwrap(res.conflict).subject)),
                   !.failed = TRUE],
          runs |-> runs]
run_one(s, p, res, beh, runs) ==
    run_result(res, beh, Append(runs, Run(p, res)))
run_popped(s, r, beh, runs) ==
    IF r.elem = None THEN [s |-> s, runs |-> runs]
    ELSE run_one(s, Unwrap(r.elem),
                 propagate_prop([s EXCEPT !.propagator_queue = r.q,
                                          !.enqueued[Unwrap(r.elem)] = FALSE],
                                Unwrap(r.elem), beh[Unwrap(r.elem)]),
                 beh, runs)
run_propagators(s, beh, runs) ==
    IF s.trail.panic \/ s.conflict # None THEN [s |-> s, runs |-> runs]
    ELSE run_popped(s, pop(s.propagator_queue), beh, runs)

(***************************************************************************)
(* Engine: the callbacks of the oracle (engine.rs).  A callback yields the *)
(* state afterwards, what it returns, the propagators it ran and, when it  *)
(* backtracks, the state as State::notify_backtrack left it.               *)
(***************************************************************************)
Result(some, lits, tag) == [some |-> some, lits |-> lits, tag |-> tag]
NoResult == Result(FALSE, << >>, "")
Outcome(s, result, runs) == [s |-> s, result |-> result, runs |-> runs]

\* The mutant delivers the conflict although propagation literals wait.
add_external_clause_eager(s) ==
    IF s.clauses # << >>
    THEN Outcome([s EXCEPT !.clauses = Tail(s.clauses)],
                 Result(TRUE, Head(s.clauses), "Irreduntant"), << >>)
    ELSE IF s.conflict # None
    THEN Outcome([s EXCEPT !.conflict = None],
                 Result(TRUE, Unwrap(s.conflict), "Forgettable"), << >>)
    ELSE Outcome(s, NoResult, << >>)

\* Engine::add_external_clause
add_external_clause(s) ==
    IF s.clauses # << >>
    THEN Outcome([s EXCEPT !.clauses = Tail(s.clauses)],
                 Result(TRUE, Head(s.clauses), "Irreduntant"), << >>)
    ELSE IF s.propagation_queue # << >>
    THEN Outcome(s, NoResult, << >>)
    ELSE IF s.conflict # None
    THEN Outcome([s EXCEPT !.conflict = None],
                 Result(TRUE, Unwrap(s.conflict), "Forgettable"), << >>)
    ELSE Outcome(s, NoResult, << >>)

\* The clause Engine::add_reason_clause builds from the reason it found.
reason_clause(s, reason, propagated_lit) ==
    Outcome(s,
            Result(TRUE,
                   IF reason # None
                   THEN Reason_explain(s, Unwrap(reason), Some(propagated_lit))
                   ELSE <<propagated_lit>>, ""), << >>)

\* The mutant explains a lazy reason where the trail happens to be.
add_reason_clause_no_goto(s, propagated_lit) ==
    reason_clause([s EXCEPT !.reason_map[propagated_lit] = None],
                  s.reason_map[propagated_lit], propagated_lit)

\* Engine::add_reason_clause
add_reason_clause(s, propagated_lit) ==
    reason_clause(
        IF s.reason_map[propagated_lit] # None
           /\ Unwrap(s.reason_map[propagated_lit]).kind = "Lazy"
        THEN [s EXCEPT !.reason_map[propagated_lit] = None,
                       !.trail = goto_assign_lit(s.trail, propagated_lit)]
        ELSE [s EXCEPT !.reason_map[propagated_lit] = None],
        s.reason_map[propagated_lit], propagated_lit)

\* Engine::notify_assignments (the state afterwards)
RECURSIVE notify_assignments(_, _)
notify_assignments(s, lits) ==
    IF lits = << >> THEN s
    ELSE notify_assignments(
             IF assign_lit_prev(s.trail, Head(lits)) # None \/ s.failed
             THEN [s EXCEPT !.trail = assign_lit(s.trail, Head(lits))]
             ELSE enqueue_propagators(
                      [s EXCEPT !.trail = assign_lit(s.trail, Head(lits))],
                      Head(lits), None),
             Tail(lits))

\* Engine::notify_backtrack
notify_backtrack(s, new_level, restart) ==
    Outcome(State_notify_backtrack(s, FALSE, new_level, restart), NoResult, << >>)

\* Engine::notify_new_decision_level
notify_new_decision_level(s) == State_notify_new_decision_level(s)

\* The mutant takes the propagation literals although clauses are waiting.
propagate_return_take(r) ==
    IF r.s.clauses # << >>
    THEN Outcome([r.s EXCEPT !.propagation_queue = << >>],
                 Result(TRUE, << >>, ""), r.runs)
    ELSE Outcome([r.s EXCEPT !.propagation_queue = << >>],
                 Result(TRUE, r.s.propagation_queue, ""), r.runs)

\* The end of Engine::propagate, r being what run_propagators returned.
propagate_return(r) ==
    IF r.s.clauses # << >>
    THEN Outcome(r.s, Result(TRUE, << >>, ""), r.runs)
    ELSE Outcome([r.s EXCEPT !.propagation_queue = << >>],
                 Result(TRUE, r.s.propagation_queue, ""), r.runs)

\* The mutant runs the propagators although a conflict is pending.
propagate_rerun(s, beh) ==
    IF s.clauses # << >> THEN Outcome(s, Result(TRUE, << >>, ""), << >>)
    ELSE propagate_return(
             IF s.propagation_queue = << >>
             THEN run_propagators([s EXCEPT !.conflict = None], beh, << >>)
             ELSE [s |-> s, runs |-> << >>])

\* Engine::propagate
propagate(s, beh) ==
    IF s.clauses # << >> THEN Outcome(s, Result(TRUE, << >>, ""), << >>)
    ELSE propagate_return(
             IF s.propagation_queue = << >> /\ s.conflict = None
             THEN run_propagators(s, beh, << >>)
             ELSE [s |-> s, runs |-> << >>])

\* The loop body of Engine::check_solution for the integer variable, b
\* being its bounds.
fix_unfixed(s, b) ==
    IF b.lb = b.ub THEN s
    ELSE enqueue_int_propagators(
             [s EXCEPT !.trail =
                notify_upper_bound(
                    IF bool_lit_less(b.lb + 1).const THEN s.trail
                    ELSE assign_lit(s.trail, bool_lit_less(b.lb + 1).lit),
                    b.lb)],
             "Fixed", None)

\* The end of Engine::check_solution: s is the state State::notify_backtrack
\* left, conflict the conflict taken before it.
check_solution_return(s, conflict, runs) ==
    Outcome([s EXCEPT !.conflict = conflict],
            Result(conflict = None, << >>, ""), runs)
check_solution_revert(r, level) ==
    check_solution_return(
        State_notify_backtrack([r.s EXCEPT !.conflict = None], TRUE, level, FALSE),
        r.s.conflict, r.runs)
check_solution_run(s, level, beh) ==
    check_solution_revert(
        run_propagators(fix_unfixed(s, get_bounds(s.trail)), beh, << >>), level)

\* Engine::check_solution
check_solution(s, beh) ==
    check_solution_run(State_notify_new_decision_level(s),
                       decision_level(s.trail), beh)

\* The decision Engine::decide returns.
Free == Result(FALSE, << >>, "Free")
Assign(lit) == Result(TRUE, <<lit>>, "Assign")
\* What a brancher answers (brancher.rs, Decision); a brancher that selects
\* the direct literal creates it on the way.
Select(lit) == [kind |-> "Select", lit |-> lit]
Exhausted == [kind |-> "Exhausted", lit |-> 0]
Consumed == [kind |-> "Consumed", lit |-> 0]
Without(seq, k) == SubSeq(seq, 1, k - 1) \o SubSeq(seq, k + 1, Len(seq))

\* The loop of Engine::decide: `current` is the index of the brancher asked
\* next, `ans` what each brancher answers and `asked` the branchers asked.
RECURSIVE decide_loop(_, _, _, _)
decide_answer(s, current, a, ans, asked) ==
    CASE a.kind = "Select" ->
           Outcome(IF LitVar(a.lit) = DirectVar THEN get_intref_lit(s) ELSE s,
                   Assign(a.lit), asked)
      [] a.kind = "Exhausted" ->
           decide_loop([s EXCEPT !.trail =
                          set_trailed_int(s.trail, CURRENT_BRANCHER, current + 1)],
                       current + 1, ans, asked)
      [] OTHER ->
           decide_loop([s EXCEPT !.branchers = Without(@, current + 1)],
                       current, ans, asked)
decide_loop(s, current, ans, asked) ==
    IF current < Len(s.branchers)
    THEN decide_answer(s, current, ans[s.branchers[current + 1]], ans,
                       Append(asked, [prop |-> s.branchers[current + 1],
                                      conflict |-> FALSE]))
    ELSE Outcome(s, Free, asked)

\* Engine::decide
decide(s, ans) ==
    IF ~s.vsids
    THEN IF get_trailed_int(s.trail, CURRENT_BRANCHER) = Len(s.branchers)
         THEN Outcome(s, Free, << >>)
         ELSE decide_loop(s, get_trailed_int(s.trail, CURRENT_BRANCHER),
                          ans, << >>)
    ELSE Outcome(s, Free, << >>)

\* State::set_vsids_only
set_vsids_only(s, enable) ==
    [s EXCEPT !.config.vsids_only = enable, !.vsids = enable]

\* The mutant enqueues the propagator whatever its flag says.
enqueue_now_again(s, prop) ==
    [s EXCEPT !.propagator_queue =
                  insert(s.propagator_queue, propagator_priority[prop], prop),
              !.enqueued[prop] = TRUE]

\* Solver::enqueue_now (the state afterwards)
enqueue_now(s, prop) ==
    IF ~s.enqueued[prop]
    THEN [s EXCEPT !.propagator_queue =
                       insert(s.propagator_queue, propagator_priority[prop], prop),
                   !.enqueued[prop] = TRUE]
    ELSE s

(***************************************************************************)
(* The engine driven by an oracle that follows the propagator protocol.    *)
(***************************************************************************)
VARIABLES state, ret, oracle, marks

vars == <<state, ret, oracle, marks>>

\* The last callback: its name, its argument (a literal, a level or a
\* propagator), what it returned and the propagators it ran.
Ret(call, arg, restart, out) ==
    [call |-> call, arg |-> arg, restart |-> restart,
     result |-> out.result, runs |-> out.runs]

InitTrail ==
    [trail |-> << >>, pos |-> 0, prev_len |-> << >>,
     int_value |-> [i \in TrailedInts |->
                      CASE i = UpperBoundRef -> DomainUb
                        [] i = LowerBoundRef -> DomainLb
                        [] OTHER -> 0],
     sat_store |-> [v \in Vars |-> BoolStore(None, None)],
     panic |-> FALSE]

InitState ==
    [trail |-> InitTrail, bool_to_int |-> {}, propagation_queue |-> << >>,
     reason_map |-> EmptyReasons, conflict |-> None, failed |-> FALSE,
     clauses |-> << >>,
     statistics |-> [conflicts |-> 0, restarts |-> 0, peak_depth |-> 0],
     vsids |-> FALSE, propagator_queue |-> EmptyQueue,
     enqueued |-> [p \in Props |-> FALSE], branchers |-> << >>,
     config |-> config]

\* The oracle: whether it searches, analyses a conflict or is done; the
\* callback it makes next; its decision level; the literal it assigned to
\* each variable (0 for none) and at which level; the literals it has from
\* the engine's propagation; the number of backtracks it makes at most;
\* whether it asks the engine for its decisions, and the literal the engine
\* chose (0 for none).
InitOracle ==
    [phase |-> "search", step |-> "prop", depth |-> 0,
     assign |-> [v \in Vars |-> 0], olevel |-> [v \in Vars |-> 0], ext |-> {},
     cap |-> MaxConflicts, levels |-> MaxLevel, decides |-> FALSE,
     chosen |-> 0]

Init ==
    /\ state = InitState
    /\ ret = Ret("new", 0, FALSE, Outcome(InitState, NoResult, << >>))
    /\ oracle = InitOracle
    /\ marks = << >>

\* The clauses the oracle holds: the order clause of the eager encoding
\* (IntVar::new_in) and the defining clauses of the direct literal that
\* were delivered to it.
KnownClauses(s) ==
    { <<0 - OrderVars[1], OrderVars[2]>> }
    \cup (IF \E e \in s.bool_to_int : e.var = DirectVar
          THEN {defining_clauses(DirectVar, OrderVars[1], OrderVars[2])[k] :
                  k \in 1..(3 - Len(s.clauses))}
          ELSE {})

\* The variables the oracle has: the direct one once a clause mentions it.
OracleVars(s) ==
    {v \in Vars : v # DirectVar
                  \/ ((\E e \in s.bool_to_int : e.var = DirectVar)
                      /\ Len(s.clauses) < 3)}

OracleFalse(o, l) == o.assign[LitVar(l)] = 0 - l
Falsified(o, clause) == \A k \in DOMAIN clause : OracleFalse(o, clause[k])
Conflicting(o, clauses) == \E c \in clauses : Falsified(o, c)

\* The oracle assigns the literals of `lits` whose variables are free.
RECURSIVE Assigned(_, _)
Assigned(o, lits) ==
    IF lits = << >> THEN o
    ELSE Assigned(IF o.assign[LitVar(Head(lits))] = 0
                  THEN [o EXCEPT !.assign[LitVar(Head(lits))] = Head(lits),
                                 !.olevel[LitVar(Head(lits))] = o.depth]
                  ELSE o,
                  Tail(lits))

\* Unit propagation of the oracle over its clauses: the implied literals.
Units(o, clauses) ==
    {l \in Lits :
        /\ o.assign[LitVar(l)] = 0
        /\ \E c \in clauses :
              /\ \E k \in DOMAIN c : c[k] = l
              /\ \A k \in DOMAIN c : c[k] # l => OracleFalse(o, c[k])}
RECURSIVE Bcp(_, _, _)
Bcp(o, clauses, acc) ==
    IF Units(o, clauses) = {} THEN acc
    ELSE Bcp(Assigned(o, <<CHOOSE l \in Units(o, clauses) :
                              \A m \in Units(o, clauses) : l <= m>>),
             clauses,
             Append(acc, CHOOSE l \in Units(o, clauses) :
                             \A m \in Units(o, clauses) : l <= m))
Implied(s, o) == Bcp(o, KnownClauses(s), << >>)

\* The oracle searches on, unless one of its clauses is falsified or the
\* engine propagated the opposite of a literal it holds.
Judged(o, s, lits) ==
    [o EXCEPT !.phase =
        IF Conflicting(o, KnownClauses(s))
           \/ \E k \in DOMAIN lits : OracleFalse(o, lits[k])
        THEN (IF o.depth = 0 THEN "done" ELSE "analyze")
        ELSE @]

\* Assignment batches the oracle may notify: what unit propagation implies
\* or, when it decided or learned a clause, a free literal with what unit
\* propagation derives from it.
MayChoose(o) ==
    \/ o.step = "assign"
    \/ o.step = "prop" /\ ret.call = "notify_backtrack"
Batches(s, o) ==
    IF Implied(s, o) # << >> THEN {Implied(s, o)}
    ELSE IF MayChoose(o)
    THEN {<<l>> \o Implied(s, Assigned(o, <<l>>)) :
             l \in {l \in Lits : IF o.step = "assign" /\ o.chosen # 0
                                  THEN l = o.chosen
                                  ELSE LitVar(l) \in OracleVars(s)
                                       /\ o.assign[LitVar(l)] = 0}}
    ELSE {}

\* The oracle's unit propagation is complete and it goes on searching.
Live ==
    /\ oracle.phase = "search" /\ ~state.trail.panic
    /\ Implied(state, oracle) = << >>

\* The behaviours of the three propagators during one callback.
Behaving ==
    {[p \in Props |-> CASE p = 0 -> b0 [] p = 1 -> b1 [] OTHER -> b2] :
        b0 \in Behaviours(0), b1 \in Behaviours(1), b2 \in Behaviours(2)}
\* Only the behaviour of a propagator that runs makes a difference.
Idle == [p \in Props |-> Behaviour("nop", 0)]
Chosen(beh, runs) ==
    \A p \in Props :
        beh[p] # Idle[p] => \E k \in DOMAIN runs : runs[k].prop = p

\* A callback is made and returns `out`.
Call(call, arg, restart, out) ==
    /\ state' = out.s
    /\ ret' = Ret(call, arg, restart, out)

EnqueueNowCall(prop) ==
    /\ Live /\ ret.call \in {"new", "enqueue_now"}
    /\ Call("enqueue_now", prop, FALSE,
            Outcome(enqueue_now(state, prop), NoResult, << >>))
    /\ UNCHANGED oracle
EnqueueNow(prop) ==
    EnqueueNowCall(prop) /\ UNCHANGED marks

NotifyAssignmentsCall(lits) ==
    /\ oracle.phase = "search" /\ ~state.trail.panic
    /\ lits \in Batches(state, oracle)
    /\ Call("notify_assignments", 0, FALSE,
            Outcome(notify_assignments(state, lits), NoResult, << >>))
    /\ oracle' = Judged([Assigned(oracle, lits) EXCEPT !.step = "prop",
                                                       !.chosen = 0],
                        state, << >>)
NotifyAssignments(lits) ==
    NotifyAssignmentsCall(lits) /\ UNCHANGED marks

NotifyNewDecisionLevelCall ==
    /\ Live /\ oracle.depth < oracle.levels
    /\ oracle.step = IF oracle.decides THEN "level" ELSE "quiet"
    /\ \E v \in OracleVars(state) : oracle.assign[v] = 0
    /\ Call("notify_new_decision_level", 0, FALSE,
            Outcome(notify_new_decision_level(state), NoResult, << >>))
    /\ oracle' = [oracle EXCEPT !.depth = @ + 1, !.step = "assign"]
NotifyNewDecisionLevel ==
    NotifyNewDecisionLevelCall /\ marks' = Append(marks, state.trail.int_value)

\* The oracle assigns the literals propagate returned.
Propagated(o, lits) ==
    [Assigned(o, lits) EXCEPT
       !.ext = @ \cup {l \in {lits[k] : k \in DOMAIN lits} :
                         o.assign[LitVar(l)] = 0},
       !.step = IF lits = << >> THEN "ext" ELSE "prop"]

PropagateCall(beh) ==
    /\ Live /\ oracle.step \in {"prop", "quiet"}
    /\ \/ beh = Idle
       \/ /\ state.clauses = << >> /\ state.propagation_queue = << >>
          /\ state.conflict = None
          /\ \E p \in Props : state.enqueued[p]
    /\ Call("propagate", 0, FALSE, propagate(state, beh))
    /\ Chosen(beh, ret'.runs)
    /\ oracle' = Judged(Propagated(oracle, ret'.result.lits), state',
                        ret'.result.lits)
Propagate(beh) ==
    PropagateCall(beh) /\ UNCHANGED marks

\* The oracle takes a clause, or the conflict the engine found; having
\* taken clauses it propagates again before it goes on.
Delivered(o, result) ==
    [o EXCEPT !.step = IF result.some THEN "more"
                       ELSE IF o.step = "more" THEN "prop" ELSE "quiet",
              !.phase = IF result.tag = "Forgettable"
                        THEN (IF o.depth = 0 THEN "done" ELSE "analyze")
                        ELSE @]

AddExternalClauseCall ==
    /\ Live /\ oracle.step \in {"ext", "more"}
    /\ Call("add_external_clause", 0, FALSE, add_external_clause(state))
    /\ oracle' = Judged(Delivered(oracle, ret'.result), state', << >>)
AddExternalClause ==
    AddExternalClauseCall /\ UNCHANGED marks

AddReasonClauseCall(lit) ==
    /\ ~state.trail.panic
    /\ \/ oracle.phase = "analyze"
       \/ oracle.phase = "search" /\ oracle.depth = 0
          /\ oracle.step \in {"prop", "quiet"}
    /\ lit \in oracle.ext
    /\ Call("add_reason_clause", lit, FALSE, add_reason_clause(state, lit))
    /\ UNCHANGED oracle
AddReasonClause(lit) ==
    AddReasonClauseCall(lit) /\ UNCHANGED marks

NotifyBacktrackCall(new_level, restart) ==
    /\ ~state.trail.panic
    /\ state.statistics.conflicts < oracle.cap
    /\ new_level <= oracle.depth
    /\ \/ oracle.phase = "analyze" /\ ~restart
       \/ Live /\ oracle.step = "quiet" /\ restart
    /\ Call("notify_backtrack", new_level, restart,
            notify_backtrack(state, new_level, restart))
    /\ oracle' = [oracle EXCEPT
          !.phase = "search", !.step = "prop", !.depth = new_level,
          !.assign = [v \in Vars |->
                        IF oracle.olevel[v] > new_level THEN 0 ELSE @[v]],
          !.olevel = [v \in Vars |-> IF @[v] > new_level THEN 0 ELSE @[v]],
          !.ext = {l \in @ : oracle.olevel[LitVar(l)] <= new_level},
          !.chosen = 0]
NotifyBacktrack(new_level, restart) ==
    NotifyBacktrackCall(new_level, restart) /\ marks' = SubSeq(marks, 1, new_level)

CheckSolutionCall(beh) ==
    /\ Live /\ oracle.step = "quiet"
    /\ \A v \in OracleVars(state) : oracle.assign[v] # 0
    /\ Call("check_solution", 0, FALSE, check_solution(state, beh))
    /\ Chosen(beh, ret'.runs)
    /\ oracle' = [oracle EXCEPT
          !.phase = IF ret'.result.some THEN "done" ELSE "search",
          !.step = IF ret'.result.some THEN "quiet" ELSE "ext"]
CheckSolution(beh) ==
    CheckSolutionCall(beh) /\ UNCHANGED marks

Range(seq) == {seq[k] : k \in DOMAIN seq}

\* The branchers of the search and what each may answer when asked: brancher
\* 0 branches on the direct literal, brancher 1 on the first order literal.
Branchers == <<0, 1>>
Answers(b) ==
    {Select(IF b = 0 THEN DirectVar ELSE OrderVars[1]), Exhausted, Consumed}
Answering ==
    {[b \in Range(Branchers) |-> IF b = 0 THEN a0 ELSE a1] :
        a0 \in Answers(0), a1 \in Answers(1)}
\* A brancher selects a literal without a value; only the answer of a
\* brancher that is asked makes a difference.
Answerable(s, ans, asked) ==
    \A b \in Range(Branchers) :
        /\ ans[b].kind = "Select" => get_sat_value(s.trail, ans[b].lit) = None
        /\ ans[b] # Exhausted => \E k \in DOMAIN asked : asked[k].prop = b

\* The oracle asks the engine for a decision before it opens a level.
Decide(ans) ==
    /\ Live /\ oracle.decides /\ oracle.step = "quiet"
    /\ oracle.depth < oracle.levels
    /\ \E v \in OracleVars(state) : oracle.assign[v] = 0
    /\ Call("decide", ans, FALSE, decide(state, ans))
    /\ Answerable(state, ans, ret'.runs)
    /\ oracle' = [oracle EXCEPT
          !.step = "level",
          !.chosen = IF ret'.result.some THEN ret'.result.lits[1] ELSE 0]
    /\ UNCHANGED marks

Next ==
    \/ \E prop \in Props : EnqueueNow(prop)
    \/ \E lits \in Batches(state, oracle) : NotifyAssignments(lits)
    \/ NotifyNewDecisionLevel
    \/ \E beh \in Behaving : Propagate(beh)
    \/ AddExternalClause
    \/ \E lit \in Lits : AddReasonClause(lit)
    \/ \E new_level \in 0..MaxLevel, restart \in BOOLEAN :
           NotifyBacktrack(new_level, restart)
    \/ \E beh \in Behaving : CheckSolution(beh)

Spec == Init /\ [][Next]_vars

\* The search with branchers: the oracle asks Engine::decide for each of its
\* decisions; the solver is configured to search by VSIDS only, or not.
InitDeciding ==
    /\ \E enable \in BOOLEAN :
          state = set_vsids_only([InitState EXCEPT !.branchers = Branchers],
                                 enable)
    /\ ret = Ret("new", 0, FALSE, Outcome(state, NoResult, << >>))
    /\ oracle = [InitOracle EXCEPT !.cap = MaxBacktracks, !.levels = MaxDepth,
                                   !.decides = TRUE]
    /\ marks = << >>
NextDeciding ==
    \/ Next
    \/ \E ans \in Answering : Decide(ans)
Deciding == InitDeciding /\ [][NextDeciding]_vars

(***************************************************************************)
(* Properties.                                                             *)
(***************************************************************************)
IsPrefix(a, b) == Len(a) <= Len(b) /\ SubSeq(b, 1, Len(a)) = a
DomainValues ==
    UNION {Domain[k][1]..Domain[k][2] : k \in DOMAIN Domain}

\* C1: after a notify_backtrack(k) with k below the current decision level
\* every trailed integer has the value it had when notify_new_decision_level
\* recorded the trail length of level index k.
C1_TrailedRestored ==
    [][ret'.call = "notify_backtrack" /\ ret'.arg < decision_level(state.trail)
         => /\ ~state'.trail.panic
            /\ state'.trail.int_value = marks[ret'.arg + 1]]_vars

\* C2: in every reachable state the lower bound of the integer variable is
\* at most its upper bound and both bounds are values of its initial domain.
C2_BoundsOrdered ==
    /\ get_bounds(state.trail).lb <= get_bounds(state.trail).ub
    /\ get_bounds(state.trail).lb \in DomainValues
    /\ get_bounds(state.trail).ub \in DomainValues

\* The conjunction the reason stored for `lit` stands for: the literals of
\* an eager reason, or what the propagator explains with the trail
\* repositioned to where `lit` was assigned.
Conjunction(s, reason, lit) ==
    IF reason.kind = "Lazy"
    THEN explain([s EXCEPT !.trail = goto_assign_lit(s.trail, lit)],
                 reason.prop, Some(lit), reason.data)
    ELSE reason.lits

\* C3: for a literal p with a stored reason r_1 /\ ... /\ r_k,
\* add_reason_clause(p) returns p together with the negation of every r_i
\* and no other literal, a lazy reason being explained by its propagator
\* after goto_assign_lit(p).
C3_ReasonClause ==
    [][ret'.call = "add_reason_clause" /\ state.reason_map[ret'.arg] # None
         => /\ Range(ret'.result.lits)
                 = {ret'.arg}
                   \cup {0 - l : l \in Range(Conjunction(state,
                                       Unwrap(state.reason_map[ret'.arg]),
                                       ret'.arg))}
            /\ Len(ret'.result.lits)
                 = 1 + Len(Conjunction(state, Unwrap(state.reason_map[ret'.arg]),
                                       ret'.arg))]_vars
\* A lazy reason of at least one literal was explained.
C3_Witness ==
    /\ ret.call = "add_reason_clause" /\ ret.arg \in {DirectVar, 0 - OrderVars[2]}
    /\ Len(ret.result.lits) >= 2
    /\ state.trail.pos < Len(state.trail.trail)

\* C4: a call reports at most one conflict and runs no propagator after
\* it; while a conflict is pending or the engine is failed no call but a
\* backtrack runs a propagator; assignments notified while the engine is
\* failed enqueue nothing.
C4_OneConflict ==
    [][/\ \A k \in DOMAIN ret'.runs : ret'.runs[k].conflict => k = Len(ret'.runs)
       /\ (state.conflict # None \/ state.failed)
            => ret'.runs = << >>
       /\ state.failed /\ ret'.call = "notify_assignments"
            => /\ state'.propagator_queue = state.propagator_queue
               /\ state'.enqueued = state.enqueued]_vars
\* A propagate call is made while the conflict of an earlier one is
\* pending and a propagator waits in the queue.
C4_Witness ==
    /\ ret.call = "propagate" /\ ret.runs = << >>
    /\ state.conflict # None /\ state.failed
    /\ \E p \in Props : state.enqueued[p]

\* C5: pop returns the propagators of one priority level in the order of
\* their insertion: it returns the oldest element of the highest level.
C5_Fifo == pop(state.propagator_queue).elem = pop_fifo(state.propagator_queue).elem

\* The number of times `p` occurs in the queue.
Occurrences(q, p) ==
    Cardinality({ik \in (1..NumPriorityLevels) \X (1..NumProps) :
                   ik[2] <= Len(q[ik[1]]) /\ q[ik[1]][ik[2]] = p})

\* C6: a propagator is in the queue at most once, and its flag is set
\* exactly while it is in the queue.
C6_EnqueuedOnce ==
    \A p \in Props :
        Occurrences(state.propagator_queue, p) = IF state.enqueued[p] THEN 1 ELSE 0
\* Enqueued directly, two propagators wait; an assignment wakes a third.
C6_Witness ==
    /\ ret.call = "notify_assignments"
    /\ \A p \in Props : state.enqueued[p]

\* What a backtrack leaves of the propagation state.
Clean(s) ==
    /\ s.propagation_queue = << >> /\ ~s.failed
    /\ s.propagator_queue = EmptyQueue
    /\ \A p \in Props : ~s.enqueued[p]

\* C7: after notify_backtrack no propagation literal and no conflict is
\* pending, the failed flag is cleared, the propagator queue is empty and
\* no enqueued flag is set; the artificial backtrack of check_solution
\* leaves the same, check_solution putting back the conflict it found.
C7_BacktrackClean ==
    [][/\ ret'.call = "notify_backtrack"
            => Clean(state') /\ state'.conflict = None
       /\ ret'.call = "check_solution" => Clean(state')
       /\ decision_level(state.trail) > 0
            => /\ Clean(State_notify_backtrack(
                         state, TRUE, decision_level(state.trail) - 1, FALSE))
               /\ State_notify_backtrack(
                      state, TRUE, decision_level(state.trail) - 1, FALSE).conflict
                    = None]_vars
\* A backtrack after the engine failed with a propagator still enqueued.
C7_Witness ==
    /\ ret.call = "notify_backtrack" /\ ~ret.restart
    /\ state.statistics.conflicts = 1
    /\ state.reason_map # EmptyReasons

DeliversClause ==
    /\ ret'.result = Result(TRUE, Head(state.clauses), "Irreduntant")
    /\ state' = [state EXCEPT !.clauses = Tail(state.clauses)]
\* The pending conflict is delivered and is pending no more.
DeliversConflict ==
    /\ ret'.result = Result(TRUE, Unwrap(state.conflict), "Forgettable")
    /\ state' = [state EXCEPT !.conflict = None]
DeliversNothing == ~ret'.result.some /\ state' = state

\* C9 (as stated): add_external_clause delivers the queued clauses first,
\* one per call and in their order; whenever no clause is queued and a
\* conflict is pending it delivers the conflict, once.
C9_ConflictWheneverPending ==
    [][ret'.call = "add_external_clause"
         => IF state.clauses # << >> THEN DeliversClause
            ELSE IF state.conflict # None THEN DeliversConflict
            ELSE DeliversNothing]_vars
\* C9 (amended): add_external_clause delivers the queued clauses first, one
\* per call and in their order; when no clause is queued, no propagation
\* literal waits to be returned and a conflict is pending, it delivers the
\* conflict, once; otherwise it delivers nothing.
C9_ConflictAfterPropagation ==
    [][ret'.call = "add_external_clause"
         => IF state.clauses # << >> THEN DeliversClause
            ELSE IF state.propagation_queue = << >> /\ state.conflict # None
            THEN DeliversConflict
            ELSE DeliversNothing]_vars
\* With no clause queued and a conflict pending nothing was delivered,
\* because propagation literals wait.
C9_Witness ==
    /\ ret.call = "add_external_clause" /\ ~ret.result.some
    /\ state.clauses = << >> /\ state.conflict # None
    /\ state.propagation_queue # << >>

\* The literals a call made true on the trail.
MadeTrue ==
    {l \in Lits : /\ get_sat_value(state.trail, l) = None
                  /\ get_sat_value(state'.trail, l) = Some(TRUE)}

\* C10: propagate returns nothing when clauses wait before or after the
\* propagators ran, and keeps the propagation literals queued so far, those
\* of this run included; no call but a backtrack drops them; a propagate
\* call with no clause waiting returns them in the order they were queued.
C10_PropagationKept ==
    [][/\ ret'.call = "propagate"
            /\ (state.clauses # << >> \/ state'.clauses # << >>)
            => /\ ret'.result.lits = << >>
               /\ IsPrefix(state.propagation_queue, state'.propagation_queue)
               /\ MadeTrue \subseteq Range(state'.propagation_queue)
       /\ ret'.call = "propagate" /\ state'.clauses = << >>
            => /\ IsPrefix(state.propagation_queue, ret'.result.lits)
               /\ state'.propagation_queue = << >>
       /\ ret'.call = "propagate" /\ state.propagation_queue # << >>
            /\ state.clauses = << >>
            => ret'.result.lits = state.propagation_queue
       /\ ret'.call \notin {"propagate", "notify_backtrack"}
            => IsPrefix(state.propagation_queue, state'.propagation_queue)]_vars
\* The propagators ran, a literal was propagated and clauses were queued:
\* propagate returned nothing and the literal waits.
C10_Witness ==
    /\ ret.call = "propagate" /\ ret.runs # << >>
    /\ ret.result.lits = << >>
    /\ state.clauses # << >> /\ state.propagation_queue # << >>

\* C11 as stated: whenever notify_new_decision_level is called the engine has
\* no pending propagation literal, no unreported conflict and no queued
\* clause, also when the preceding decide created a literal lazily.
C11_NothingPending ==
    [][ret'.call = "notify_new_decision_level"
         => /\ state.propagation_queue = << >>
            /\ state.conflict = None
            /\ state.clauses = << >>]_vars

\* C11 amended: whenever notify_new_decision_level is called the engine has
\* no pending propagation literal, no unreported conflict and has not failed;
\* its clause queue is empty unless the decide just before created the direct
\* literal, and then it holds exactly that literal's defining clauses.
C11_OnlyDefiningClausesPending ==
    [][ret'.call = "notify_new_decision_level"
         => /\ state.propagation_queue = << >>
            /\ state.conflict = None
            /\ ~state.failed
            /\ state.clauses # << >>
                 => /\ ret.call = "decide"
                    /\ ret.result = Assign(DirectVar)
                    /\ state.clauses =
                         defining_clauses(DirectVar, OrderVars[1], OrderVars[2])]_vars
\* A level was opened while the defining clauses of the lazily created
\* literal were queued.
C11_Witness ==
    /\ ret.call = "notify_new_decision_level"
    /\ state.clauses = defining_clauses(DirectVar, OrderVars[1], OrderVars[2])
    /\ decision_level(state.trail) >= 1

\* The positions from the saved index on of the branchers that answer Select,
\* and the last position asked before one of them does.
Selecting(B, saved, ans) ==
    {k \in (saved + 1)..Len(B) : ans[B[k]].kind = "Select"}
First(S) == CHOOSE k \in S : \A j \in S : k <= j
LastPassed(B, saved, ans) ==
    IF Selecting(B, saved, ans) = {} THEN Len(B)
    ELSE First(Selecting(B, saved, ans)) - 1
Passed(B, saved, ans, a) ==
    {B[k] : k \in {k \in (saved + 1)..LastPassed(B, saved, ans) : ans[B[k]] = a}}
\* What decide is to return and to leave behind when the search is by
\* branchers B, the saved index is `saved` and the branchers answer as ans.
DecisionOf(B, saved, ans) ==
    IF Selecting(B, saved, ans) = {} THEN Free
    ELSE Assign(ans[B[First(Selecting(B, saved, ans))]].lit)
RemainingOf(B, saved, ans) ==
    SelectSeq(B, LAMBDA b : b \notin Passed(B, saved, ans, Consumed))
SavedOf(B, saved, ans) == saved + Cardinality(Passed(B, saved, ans, Exhausted))

\* C13: decide returns the free decision when VSIDS is on or no brancher from
\* the saved index on selects; otherwise it returns the literal of the first
\* brancher from the saved index on that answers Select.  The saved index has
\* advanced past each brancher that answered Exhausted before, each that
\* answered Consumed is removed for good, and the saved index does not exceed
\* the number of remaining branchers.
C13_Decide ==
    [][ret'.call = "decide"
         => LET B == state.branchers
                saved == get_trailed_int(state.trail, CURRENT_BRANCHER)
                index == get_trailed_int(state'.trail, CURRENT_BRANCHER)
            IN /\ index <= Len(state'.branchers)
               /\ IF state.vsids
                  THEN /\ ret'.result = Free
                       /\ state'.branchers = B /\ index = saved
                  ELSE /\ ret'.result = DecisionOf(B, saved, ret'.arg)
                       /\ state'.branchers = RemainingOf(B, saved, ret'.arg)
                       /\ index = SavedOf(B, saved, ret'.arg)]_vars

\* C12: check_solution returns false exactly when a propagator it ran on the
\* assignment with the unfixed integer at its lower bound found a conflict;
\* the conflict is then still pending after the call; in every case the
\* decision level and every trailed integer are what they were before.
C12_CheckSolutionReverts ==
    [][ret'.call = "check_solution"
         => /\ ~ret'.result.some
                 <=> \E k \in DOMAIN ret'.runs : ret'.runs[k].conflict
            /\ ~ret'.result.some => state'.conflict # None
            /\ ~state'.trail.panic
            /\ decision_level(state'.trail) = decision_level(state.trail)
            /\ state'.trail.int_value = state.trail.int_value]_vars

(***************************************************************************)
(* The trail on its own, driven as test_trail_event (trail.rs) drives it:  *)
(* events are pushed at the root and then undone one by one.  `oracle` is  *)
(* the list of the events pushed and the number of undo calls made.        *)
(***************************************************************************)
MinIntVal == 0 - (ValMod \div 2)
MaxIntVal == (ValMod \div 2) - 1
IntVals == {MinIntVal, -1, 0, 1, MaxIntVal}
Events ==
    {SatAssignment(v) : v \in Vars}
        \cup {IntAssignment(i, v) : i \in TrailedInts, v \in IntVals}
TrailCall(call, arg, result) == [call |-> call, arg |-> arg, result |-> result]

InitUndoing ==
    /\ state = [trail |-> InitTrail]
    /\ ret = TrailCall("new", 0, None)
    /\ oracle = [log |-> << >>, undone |-> 0]
    /\ marks = << >>

\* trail.push_trail(TrailEvent::SatAssignment(l)); trail.assign_lit(l or !l)
PushSat(lit) ==
    /\ oracle.undone = 0 /\ Len(state.trail.trail) + 1 <= MaxWords
    /\ state' = [trail |->
                   assign_lit(push_trail(state.trail,
                                         SatAssignment(LitVar(lit))), lit)]
    /\ ret' = TrailCall("push_trail", SatAssignment(LitVar(lit)), None)
    /\ oracle' = [oracle EXCEPT !.log = Append(@, SatAssignment(LitVar(lit)))]
    /\ UNCHANGED marks

\* trail.push_trail(TrailEvent::IntAssignment(i, v))
PushInt(e) ==
    /\ oracle.undone = 0 /\ Len(state.trail.trail) + 3 <= MaxWords
    /\ state' = [trail |-> push_trail(state.trail, e)]
    /\ ret' = TrailCall("push_trail", e, None)
    /\ oracle' = [oracle EXCEPT !.log = Append(@, e)]
    /\ UNCHANGED marks

\* trail.undo::<true>(), once more than there are events.
Undo ==
    /\ oracle.undone <= Len(oracle.log)
    /\ state' = [trail |-> undo(state.trail, TRUE).t]
    /\ ret' = TrailCall("undo", 0, undo(state.trail, TRUE).event)
    /\ oracle' = [oracle EXCEPT !.undone = @ + 1]
    /\ UNCHANGED marks

NextUndoing ==
    \/ \E lit \in Lits : PushSat(lit)
    \/ \E e \in Events : e.kind = "int" /\ PushInt(e)
    \/ Undo
Undoing == InitUndoing /\ [][NextUndoing]_vars

\* C15: undoing yields the events pushed in the exact reverse order of their
\* pushing, each with its payload (the Boolean variable, or the trailed
\* integer and the full-width value pushed, the least and the greatest
\* included), and no event once the start of the trail is reached.
C15_UndoReverses ==
    [][ret'.call = "undo"
         => /\ ~state'.trail.panic
            /\ IF oracle.undone < Len(oracle.log)
               THEN ret'.result = Some(oracle.log[Len(oracle.log) - oracle.undone])
               ELSE ret'.result = None /\ state' = state]_vars
\* The second undo returned the least value pushed for the last trailed
\* integer, after a Boolean event pushed later was undone.
C15_Witness ==
    /\ ret.call = "undo" /\ oracle.undone = 2
    /\ oracle.log = <<IntAssignment(NumTrailed - 1, MinIntVal), SatAssignment(1)>>
    /\ ret.result = Some(IntAssignment(NumTrailed - 1, MinIntVal))

(***************************************************************************)
(* The trail as the engine drives it: literals are assigned and trailed    *)
(* integers written, levels are opened, goto_assign_lit repositions the    *)
(* cursor while the oracle analyses a conflict, and the analysis ends with *)
(* a notify_backtrack, whose level may not be below the current one.       *)
(* `oracle` is the mode of the search and, for each variable whose         *)
(* assignment is recorded, the level of the record and the values right    *)
(* before it; `marks` are the values when each level was opened.           *)
(***************************************************************************)
Snapshot(t) ==
    [int_value |-> t.int_value, value |-> [v \in Vars |-> t.sat_store[v].value]]
\* The literals assigned, the trailed integers written and the values
\* written to them.
Assignable == {1, -2}
Writable == {LowerBoundRef}
Written == {1, MaxIntVal}

InitTrailing ==
    /\ state = [trail |-> InitTrail]
    /\ ret = TrailCall("new", 0, None)
    /\ oracle = [mode |-> "search", before |-> [v \in Vars |-> None],
                 gotos |-> 0]
    /\ marks = << >>

\* Trail::assign_lit, from Engine::notify_assignments and set_bool.
AssignLit(lit) ==
    /\ oracle.mode = "search" /\ ~state.trail.panic
    /\ Len(state.trail.trail) + 1 <= MaxTrail
    /\ state' = [trail |-> assign_lit(state.trail, lit)]
    /\ ret' = TrailCall("assign_lit", lit, assign_lit_prev(state.trail, lit))
    /\ oracle' = IF assign_lit_prev(state.trail, lit) = None
                    /\ decision_level(state.trail) > 0
                 THEN [oracle EXCEPT !.before[LitVar(lit)] =
                         Some([level |-> decision_level(state.trail),
                               snap |-> Snapshot(state.trail)])]
                 ELSE oracle
    /\ UNCHANGED marks

\* Trail::set_trailed_int, from the bounds of the integer variable and the
\* brancher index.
SetTrailedInt(i, v) ==
    /\ oracle.mode = "search" /\ ~state.trail.panic
    /\ Len(state.trail.trail) + 3 <= MaxTrail
    /\ state' = [trail |-> set_trailed_int(state.trail, i, v)]
    /\ ret' = TrailCall("set_trailed_int", <<i, v>>,
                        set_trailed_int_prev(state.trail, i, v))
    /\ UNCHANGED <<oracle, marks>>

\* Trail::notify_new_decision_level
NewLevel ==
    /\ oracle.mode = "search" /\ ~state.trail.panic
    /\ decision_level(state.trail) < MaxLevel
    /\ state' = [trail |-> Trail_notify_new_decision_level(state.trail)]
    /\ ret' = TrailCall("notify_new_decision_level", 0, None)
    /\ marks' = Append(marks, Snapshot(state.trail))
    /\ UNCHANGED oracle

\* Trail::goto_assign_lit, from Engine::add_reason_clause: the oracle asks
\* for the reason of a literal that was propagated above the root.
Goto(lit) ==
    /\ ~state.trail.panic /\ oracle.gotos < MaxGotos
    /\ oracle.before[LitVar(lit)] # None
    /\ state' = [trail |-> goto_assign_lit(state.trail, lit)]
    /\ ret' = TrailCall("goto_assign_lit", lit, None)
    /\ oracle' = [oracle EXCEPT !.mode = "analysis", !.gotos = @ + 1]
    /\ UNCHANGED marks

\* Trail::notify_backtrack, from State::notify_backtrack at the end of the
\* analysis of a conflict.
Backtrack(level) ==
    /\ ~state.trail.panic /\ oracle.mode = "analysis"
    /\ level <= decision_level(state.trail)
    /\ state' = [trail |-> Trail_notify_backtrack(state.trail, level)]
    /\ ret' = TrailCall("notify_backtrack", level, None)
    /\ oracle' = [oracle EXCEPT
          !.mode = "search",
          !.before = [v \in Vars |->
                        IF @[v] # None /\ Unwrap(@[v]).level > level
                        THEN None ELSE @[v]]]
    /\ marks' = SubSeq(marks, 1, IF level < Len(marks) THEN level ELSE Len(marks))

NextTrailing ==
    \/ \E lit \in Assignable : AssignLit(lit)
    \/ \E i \in Writable, v \in Written : SetTrailedInt(i, v)
    \/ NewLevel
    \/ \E lit \in Assignable : Goto(lit)
    \/ \E level \in 0..MaxLevel : Backtrack(level)
Trailing == InitTrailing /\ [][NextTrailing]_vars

\* C14: after goto_assign_lit(lit) for a literal whose assignment is recorded
\* on the trail, every trailed integer and every literal has the value it
\* had right before that assignment was recorded, and no trail word and no
\* level marker is removed; a later notify_backtrack to a level below the
\* current one restores the values that level was opened with.
C14_GotoRestores ==
    [][/\ ret'.call = "goto_assign_lit"
          => /\ ~state'.trail.panic
             /\ Snapshot(state'.trail)
                  = Unwrap(oracle.before[LitVar(ret'.arg)]).snap
             /\ Len(state'.trail.trail) = Len(state.trail.trail)
             /\ state'.trail.prev_len = state.trail.prev_len
       /\ ret'.call = "notify_backtrack"
             /\ ret'.arg < decision_level(state.trail)
          => /\ ~state'.trail.panic
             /\ decision_level(state'.trail) = ret'.arg
             /\ Snapshot(state'.trail) = marks[ret'.arg + 1]]_vars

\* The words of the trail t from the (0-based) offset p on are ws.
RecordedAt(t, p, ws) ==
    /\ p + Len(ws) <= Len(t.trail)
    /\ SubSeq(t.trail, p + 1, p + Len(ws)) = ws
\* An undo record of the words ws is appended in the step: the trail grows
\* by these words, which are written where the cursor stood.
Appends(ws) ==
    /\ Len(state'.trail.trail) = Len(state.trail.trail) + Len(ws)
    /\ RecordedAt(state'.trail, state.trail.pos, ws)
    /\ state.trail.pos = Len(state.trail.trail)
         => state'.trail.trail = state.trail.trail \o ws

C18_ConflictsCountNonRestarts ==
    [][/\ ret'.call = "notify_backtrack"
          => /\ state'.statistics.conflicts
                  = state.statistics.conflicts + (IF ret'.restart THEN 0 ELSE 1)
             /\ state'.statistics.restarts
                  = state.statistics.restarts + (IF ret'.restart THEN 1 ELSE 0)
       /\ ret'.call = "check_solution"
          => /\ state'.statistics.conflicts = state.statistics.conflicts
             /\ state'.statistics.restarts = state.statistics.restarts]_vars

(***************************************************************************)
(* The integer event of a notified literal.                                *)
(***************************************************************************)
\* IntPropCond: the five kinds a propagator can subscribe with.
IntPropConds == {"Fixed", "LowerBound", "UpperBound", "Bounds", "Domain"}

\* What determine_int_event answers for lit in the current state, with the
\* bounds of the variable before and after it.
EventOf(lit) ==
    [event |-> determine_int_event(state, lit).event,
     before |-> get_bounds(state.trail),
     after |-> get_bounds(determine_int_event(state, lit).s.trail)]

\* The event agrees with the bound the assignment moved.
EventAgrees(e) ==
    e.after # e.before
    => /\ e.after.lb = e.after.ub
          => /\ e.event = Some("Fixed")
             /\ \A cond \in IntPropConds : activates("Fixed", cond)
       /\ e.after.lb # e.after.ub /\ e.after.lb # e.before.lb
          => e.event = Some("LowerBound")
       /\ e.after.lb # e.after.ub /\ e.after.ub # e.before.ub
          => e.event = Some("UpperBound")

\* C17: when a literal assignment moves a bound of the integer variable onto
\* the opposite bound the event computed for it is Fixed, which every one of
\* the five subscription kinds is woken by; when the moved bound stays apart
\* from the opposite one the event is LowerBound or UpperBound after the
\* bound that moved.
C17_EventFollowsBound ==
    ~state.trail.panic => \A lit \in Lits : EventAgrees(EventOf(lit))

\* After an earlier assignment lowered the upper bound: a literal whose
\* assignment raises the lower bound onto it, and one whose assignment
\* raises the lower bound past it.
C17_Witness ==
    /\ ~state.trail.panic
    /\ get_bounds(state.trail).ub < DomainUb
    /\ \E lit \in Lits :
          /\ EventOf(lit).event = Some("Fixed")
          /\ EventOf(lit).after.lb # EventOf(lit).before.lb
          /\ EventOf(lit).after.ub = EventOf(lit).before.ub
    /\ \E lit \in Lits :
          /\ EventOf(lit).event = Some("LowerBound")
          /\ EventOf(lit).after.lb > EventOf(lit).after.ub


(***************************************************************************)
(* Creation of the literals of an integer variable (int_var.rs), for a     *)
(* variable of its own whose domain has a gap.  Indices into the node      *)
(* vector count from 0 as in the source.                                   *)
(***************************************************************************)
EncDomain == << <<1, 2>>, <<4, 6>> >>
EncLb == EncDomain[1][1]
EncUb == EncDomain[Len(EncDomain)][2]
EncValues == UNION {EncDomain[k][1]..EncDomain[k][2] : k \in DOMAIN EncDomain}
\* orig_domain_len in IntVar::new_in
EncLen == Cardinality(EncValues)

\* OrderStorage::resolve_val: the value, the offset and the range the
\* iterator stops at.
RECURSIVE resolve_from(_, _, _, _)
resolve_from(domain, val, k, offset) ==
    IF val < domain[k][1]
    THEN [val |-> domain[k][1], offset |-> offset, k |-> k]
    ELSE IF val <= domain[k][2]
    THEN [val |-> val, offset |-> offset + val - domain[k][1], k |-> k]
    ELSE resolve_from(domain, val, k + 1,
                      offset + domain[k][2] - domain[k][1] + 1)
OrderStorage_resolve_val(domain, val) == resolve_from(domain, val, 1, -1)

\* The step to the next value shared by the arms of OrderEntry::next_value,
\* with the value taken one further and the gap not skipped.
next_in_adjacent(domain, k, val) == [val |-> val + 1, k |-> k, panic |-> FALSE]

\* The step to the next value shared by the arms of OrderEntry::next_value:
\* val + 1 when the range under the iterator contains it, else the start of
\* the range after it.
next_in(domain, k, val) ==
    IF val + 1 >= domain[k][1] /\ val + 1 <= domain[k][2]
    THEN [val |-> val + 1, k |-> k, panic |-> FALSE]
    ELSE IF k + 1 <= Len(domain)
    THEN [val |-> domain[k + 1][1], k |-> k + 1, panic |-> FALSE]
    ELSE [val |-> val + 1, k |-> k, panic |-> TRUE]

\* LazyOrderStorage and its Index impl.
EmptyLazyOrder ==
    [kind |-> "Lazy", min_index |-> 0, max_index |-> 0, storage |-> << >>]
At(st, i) == st.storage[i + 1]
is_empty(st) == st.storage = << >>

\* OrderNode
OrderNode(val, var, prev, next) ==
    [val |-> val, var |-> var,
     has_prev |-> prev # None, prev |-> IF prev = None THEN 0 ELSE Unwrap(prev),
     has_next |-> next # None, next |-> IF next = None THEN 0 ELSE Unwrap(next)]

\* LazyOrderStorage::find_index
RECURSIVE find_index(_, _, _, _)
find_index(st, i, direction, val) ==
    IF direction = "Increasing"
    THEN IF At(st, i).has_next /\ At(st, At(st, i).next).val <= val
         THEN find_index(st, At(st, i).next, direction, val)
         ELSE i
    ELSE IF At(st, i).has_prev /\ At(st, At(st, i).prev).val >= val
         THEN find_index(st, At(st, i).prev, direction, val)
         ELSE i

\* OrderEntry
EagerEntry(offset) == [kind |-> "Eager", offset |-> offset]
Occupied(index, k) == [kind |-> "Occupied", index |-> index, k |-> k]
Vacant(prev_index, k, val) ==
    [kind |-> "Vacant", prev_index |-> prev_index, k |-> k, val |-> val]
Panicked == [kind |-> "Panic"]

\* OrderStorage::entry (r is what resolve_val returned, i what find_index
\* returned).
entry_found(i, oe, r) ==
    IF At(oe, i).val = r.val THEN Occupied(i, r.k) ELSE Vacant(i, r.k, r.val)
entry_resolved(oe, r) ==
    IF oe.kind = "Eager" THEN EagerEntry(r.offset)
    ELSE IF is_empty(oe) \/ At(oe, oe.min_index).val > r.val
    THEN Vacant(-1, r.k, r.val)
    ELSE IF At(oe, oe.max_index).val < r.val
    THEN Vacant(oe.max_index, r.k, r.val)
    ELSE entry_found(find_index(oe, oe.min_index, "Increasing", r.val), oe, r)
OrderStorage_entry(oe, domain, val) ==
    entry_resolved(oe, OrderStorage_resolve_val(domain, val))

\* OrderStorage::find (r is what resolve_val returned).
find_resolved(oe, r) ==
    IF oe.kind = "Eager" THEN Some(oe.vars[r.offset + 1])
    ELSE IF is_empty(oe) \/ At(oe, oe.min_index).val > r.val
            \/ At(oe, oe.max_index).val < r.val
    THEN None
    ELSE IF At(oe, find_index(oe, oe.min_index, "Increasing", r.val)).val = r.val
    THEN Some(At(oe, find_index(oe, oe.min_index, "Increasing", r.val)).var)
    ELSE None
\* The lookup with the value as it was asked for, not resolved to the
\* domain.
OrderStorage_find_unresolved(oe, domain, val) ==
    find_resolved(oe, [OrderStorage_resolve_val(domain, val) EXCEPT !.val = val])
OrderStorage_find(oe, domain, val) ==
    find_resolved(oe, OrderStorage_resolve_val(domain, val))

\* OrderEntry::next_value (n is the next value and its range).
next_occupied(oe, e, n) ==
    IF n.panic THEN Panicked
    ELSE IF At(oe, e.index).has_next /\ At(oe, At(oe, e.index).next).val = n.val
    THEN Occupied(At(oe, e.index).next, n.k)
    ELSE Vacant(e.index, n.k, n.val)
next_vacant(oe, e, n) ==
    IF n.panic THEN Panicked
    ELSE IF e.prev_index >= 0 /\ At(oe, e.prev_index).has_next
            /\ At(oe, At(oe, e.prev_index).next).val = n.val
    THEN Occupied(At(oe, e.prev_index).next, n.k)
    ELSE IF ~is_empty(oe) /\ At(oe, oe.min_index).val = n.val
    THEN Occupied(oe.min_index, n.k)
    ELSE Vacant(e.prev_index, n.k, n.val)
next_value(oe, domain, e) ==
    CASE e.kind = "Eager" -> EagerEntry(e.offset + 1)
      [] e.kind = "Occupied" ->
           next_occupied(oe, e, next_in(domain, e.k, At(oe, e.index).val))
      [] e.kind = "Vacant" -> next_vacant(oe, e, next_in(domain, e.k, e.val))
      [] OTHER -> Panicked

\* LitMeaning::defining_clauses with its optional neighbours.
LitMeaning_defining_clauses(meaning, lit, prev, next) ==
    IF meaning.m = "Eq"
    THEN defining_clauses(lit, Unwrap(prev), Unwrap(next))
    ELSE (IF prev # None THEN << <<0 - Unwrap(prev), lit>> >> ELSE << >>)
         \o (IF next # None THEN << <<0 - lit, Unwrap(next)>> >> ELSE << >>)

\* The closure new_var of Solver::get_intref_lit: a fresh variable, its
\* entry in the lazy map and its defining clauses.
new_var(s, meaning, prev, next) ==
    [s EXCEPT
       !.next_var = @ + 1,
       !.bool_to_int = @ \cup {[var |-> s.next_var, meaning |-> meaning]},
       !.clauses = @ \o LitMeaning_defining_clauses(meaning, s.next_var,
                                                    prev, next)]

\* The neighbours OrderEntry::or_insert_with determines for a vacant entry.
vacant_prev(oe, e) ==
    IF e.prev_index >= 0 THEN Some(e.prev_index) ELSE None
vacant_next(oe, e) ==
    IF e.prev_index >= 0
    THEN (IF At(oe, e.prev_index).has_next
          THEN Some(At(oe, e.prev_index).next) ELSE None)
    ELSE IF ~is_empty(oe) THEN Some(oe.min_index) ELSE None
var_of(oe, i) == IF i = None THEN None ELSE Some(At(oe, Unwrap(i)).var)

\* The insertion with the back link of the following node left as it was.
link_forward_only(oe, val, var, prev, next) ==
    [oe EXCEPT
       !.storage =
           [k \in 1..(Len(oe.storage) + 1) |->
              IF k = Len(oe.storage) + 1 THEN OrderNode(val, var, prev, next)
              ELSE IF prev # None /\ k = Unwrap(prev) + 1
              THEN [oe.storage[k] EXCEPT !.has_next = TRUE,
                                         !.next = Len(oe.storage)]
              ELSE oe.storage[k]],
       !.min_index = IF prev = None THEN Len(oe.storage) ELSE @,
       !.max_index = IF next = None THEN Len(oe.storage) ELSE @]

\* The insertion of OrderEntry::or_insert_with: the node is pushed and
\* linked to its neighbours, and the ends of the list are moved.
link(oe, val, var, prev, next) ==
    [oe EXCEPT
       !.storage =
           [k \in 1..(Len(oe.storage) + 1) |->
              IF k = Len(oe.storage) + 1 THEN OrderNode(val, var, prev, next)
              ELSE IF prev # None /\ k = Unwrap(prev) + 1
              THEN [oe.storage[k] EXCEPT !.has_next = TRUE,
                                         !.next = Len(oe.storage)]
              ELSE IF next # None /\ k = Unwrap(next) + 1
              THEN [oe.storage[k] EXCEPT !.has_prev = TRUE,
                                         !.prev = Len(oe.storage)]
              ELSE oe.storage[k]],
       !.min_index = IF prev = None THEN Len(oe.storage) ELSE @,
       !.max_index = IF next = None THEN Len(oe.storage) ELSE @]

\* OrderEntry::or_insert_with called with the closure of IntVar::bool_lit:
\* the state afterwards, the entry and the variable.
insert_vacant(s, e, prev, next) ==
    [s |-> [new_var(s, Less(e.val), var_of(s.order_encoding, prev),
                    var_of(s.order_encoding, next))
              EXCEPT !.order_encoding =
                         link(s.order_encoding, e.val, s.next_var, prev, next)],
     entry |-> Occupied(Len(s.order_encoding.storage), e.k),
     var |-> s.next_var]
or_insert_with(s, e) ==
    CASE e.kind = "Eager" ->
           [s |-> s, entry |-> e, var |-> s.order_encoding.vars[e.offset + 1]]
      [] e.kind = "Occupied" ->
           [s |-> s, entry |-> e, var |-> At(s.order_encoding, e.index).var]
      [] e.kind = "Vacant" ->
           insert_vacant(s, e, vacant_prev(s.order_encoding, e),
                         vacant_next(s.order_encoding, e))
      [] OTHER -> [s |-> [s EXCEPT !.panic = TRUE], entry |-> e, var |-> 0]

\* The offset DirectStorage::entry and DirectStorage::find compute for the
\* eager direct literals.
RECURSIVE direct_offset(_, _, _, _)
direct_offset(domain, i, k, offset) ==
    IF k > Len(domain) THEN Some(offset)
    ELSE IF i < domain[k][1] THEN None
    ELSE IF i <= domain[k][2] THEN Some(offset + i - domain[k][1])
    ELSE direct_offset(domain, i, k + 1,
                       offset + domain[k][2] - domain[k][1] + 1)

\* DirectStorage::find
DirectStorage_find(de, domain, i) ==
    IF de.kind = "Eager"
    THEN Some(IF direct_offset(domain, i, 1, -1) # None
              THEN ViewLit(de.vars[Unwrap(direct_offset(domain, i, 1, -1)) + 1])
              ELSE ViewConst(FALSE))
    ELSE IF \E e \in de.map : e.val = i
    THEN Some(ViewLit((CHOOSE e \in de.map : e.val = i).var))
    ELSE None

\* DirectStorage::entry: the view of an occupied entry, nothing for a
\* vacant one.
DirectStorage_entry(de, domain, i) ==
    IF de.kind = "Eager" \/ (\E e \in de.map : e.val = i)
    THEN DirectStorage_find(de, domain, i)
    ELSE IF \E k \in DOMAIN domain : i >= domain[k][1] /\ i <= domain[k][2]
    THEN None
    ELSE Some(ViewConst(FALSE))

\* The normalisation that turns GreaterEq and NotEq around without
\* remembering to negate the literal.
normalize_lit_meaning_unsigned(lit, lb, ub) ==
    CASE lit.m \in {"Eq", "NotEq"} /\ lit.v = lb ->
           [lit |-> Less(lb + 1), negate |-> lit.m = "NotEq"]
      [] lit.m \in {"Eq", "NotEq"} /\ lit.v # lb /\ lit.v = ub ->
           [lit |-> Less(ub), negate |-> lit.m = "Eq"]
      [] lit.m = "GreaterEq" \/ (lit.m = "NotEq" /\ lit.v \notin {lb, ub}) ->
           [lit |-> NotMeaning(lit), negate |-> FALSE]
      [] OTHER -> [lit |-> lit, negate |-> FALSE]

\* IntVar::normalize_lit_meaning
normalize_lit_meaning(lit, lb, ub) ==
    CASE lit.m \in {"Eq", "NotEq"} /\ lit.v = lb ->
           [lit |-> Less(lb + 1), negate |-> lit.m = "NotEq"]
      [] lit.m \in {"Eq", "NotEq"} /\ lit.v # lb /\ lit.v = ub ->
           [lit |-> Less(ub), negate |-> lit.m = "Eq"]
      [] lit.m = "GreaterEq" \/ (lit.m = "NotEq" /\ lit.v \notin {lb, ub}) ->
           [lit |-> NotMeaning(lit), negate |-> TRUE]
      [] OTHER -> [lit |-> lit, negate |-> FALSE]

\* impl Not for BoolView
not_view(v) == IF v.const THEN ViewConst(~v.val) ELSE ViewLit(0 - v.lit)

\* The arms of IntVar::bool_lit.  For Less: r is what or_insert_with
\* returned.
less_lit(r) == [s |-> r.s, view |-> ViewLit(r.var)]
\* For Eq on a vacant direct entry: r1 is the order literal of the value,
\* r2 the order literal of the next value, then the direct literal itself.
eq_insert(r1, r2, i) ==
    [s |-> [new_var(r2.s, Eq(i), Some(r1.var), Some(r2.var))
              EXCEPT !.direct_encoding.map =
                         @ \cup {[val |-> i, var |-> r2.s.next_var]}],
     view |-> ViewLit(r2.s.next_var)]
eq_next(r1, i) ==
    eq_insert(r1,
              or_insert_with(r1.s, next_value(r1.s.order_encoding, r1.s.domain,
                                              r1.entry)),
              i)
eq_lit(s, i, found) ==
    IF found # None THEN [s |-> s, view |-> Unwrap(found)]
    ELSE eq_next(or_insert_with(s, OrderStorage_entry(s.order_encoding,
                                                      s.domain, i)),
                 i)
bool_lit_normal(s, bv, lb, ub) ==
    CASE bv.m = "Less" /\ bv.v <= lb -> [s |-> s, view |-> ViewConst(FALSE)]
      [] bv.m = "Less" /\ bv.v > ub -> [s |-> s, view |-> ViewConst(TRUE)]
      [] bv.m = "Less" /\ bv.v > lb /\ bv.v <= ub ->
           less_lit(or_insert_with(s, OrderStorage_entry(s.order_encoding,
                                                         s.domain, bv.v)))
      [] bv.m = "Eq" /\ (bv.v < lb \/ bv.v > ub) ->
           [s |-> s, view |-> ViewConst(FALSE)]
      [] bv.m = "Eq" /\ bv.v >= lb /\ bv.v <= ub ->
           eq_lit(s, bv.v, DirectStorage_entry(s.direct_encoding, s.domain, bv.v))
bool_lit_negate(r, negate) ==
    IF negate THEN [s |-> r.s, view |-> not_view(r.view)] ELSE r

\* IntVar::bool_lit
bool_lit(s, bv) ==
    bool_lit_negate(
        bool_lit_normal(s,
                        normalize_lit_meaning(bv, s.domain[1][1],
                                              s.domain[Len(s.domain)][2]).lit,
                        s.domain[1][1], s.domain[Len(s.domain)][2]),
        normalize_lit_meaning(bv, s.domain[1][1],
                              s.domain[Len(s.domain)][2]).negate)

\* IntVar::get_bool_lit
found_lit(v) == IF v = None THEN None ELSE Some(ViewLit(Unwrap(v)))
get_bool_lit_normal(s, bv, lb, ub) ==
    CASE bv.m = "Less" /\ bv.v <= lb -> Some(ViewConst(FALSE))
      [] bv.m = "Less" /\ bv.v > ub -> Some(ViewConst(TRUE))
      [] bv.m = "Less" /\ bv.v > lb /\ bv.v <= ub ->
           found_lit(OrderStorage_find(s.order_encoding, s.domain, bv.v))
      [] bv.m = "Eq" /\ (bv.v < lb \/ bv.v > ub) -> Some(ViewConst(FALSE))
      [] bv.m = "Eq" /\ bv.v >= lb /\ bv.v <= ub ->
           DirectStorage_find(s.direct_encoding, s.domain, bv.v)
get_bool_lit_negate(v, negate) ==
    IF v # None /\ negate THEN Some(not_view(Unwrap(v))) ELSE v
get_bool_lit(s, bv) ==
    get_bool_lit_negate(
        get_bool_lit_normal(s,
                            normalize_lit_meaning(bv, s.domain[1][1],
                                                  s.domain[Len(s.domain)][2]).lit,
                            s.domain[1][1], s.domain[Len(s.domain)][2]),
        normalize_lit_meaning(bv, s.domain[1][1],
                              s.domain[Len(s.domain)][2]).negate)

\* Solver::get_intref_lit: the clauses the closure collected are added to
\* the oracle in the order they were collected.
Solver_get_intref_lit(s, meaning) == bool_lit(s, meaning)

\* The consistency clauses IntVar::new_in adds for the k-th window of the
\* eager order literals.
eager_clauses(order, direct, k) ==
    << <<0 - order[k], order[k + 1]>> >>
    \o (IF direct = << >> THEN << >>
        ELSE << <<0 - direct[k], 0 - order[k]>>,
                <<0 - direct[k], order[k + 1]>>,
                <<direct[k], order[k], 0 - order[k + 1]>> >>)
\* The consistency clauses of the first window only.
eager_clauses_first(order, direct, k) ==
    IF k + 1 > Len(order) THEN << >> ELSE eager_clauses(order, direct, k)
RECURSIVE eager_clauses_from(_, _, _)
eager_clauses_from(order, direct, k) ==
    IF k + 1 > Len(order) THEN << >>
    ELSE eager_clauses(order, direct, k) \o eager_clauses_from(order, direct, k + 1)

\* oracle.new_var_range
new_var_range(first, len) == [k \in 1..len |-> first + k - 1]

\* IntVar::new_in for a domain of more than two values.
new_in(domain, len, order_encoding, direct_encoding) ==
    [domain |-> domain,
     order_encoding |->
         IF order_encoding = "Eager"
         THEN [kind |-> "Eager", vars |-> new_var_range(1, len - 1)]
         ELSE EmptyLazyOrder,
     direct_encoding |->
         IF direct_encoding = "Eager"
         THEN [kind |-> "Eager", vars |-> new_var_range(len, len - 2)]
         ELSE [kind |-> "Lazy", map |-> {}],
     next_var |-> 1 + (IF order_encoding = "Eager" THEN len - 1 ELSE 0)
                    + (IF direct_encoding = "Eager" THEN len - 2 ELSE 0),
     bool_to_int |-> {},
     clauses |->
         IF order_encoding = "Eager"
         THEN eager_clauses_from(
                  new_var_range(1, len - 1),
                  IF direct_encoding = "Eager"
                  THEN new_var_range(len, len - 2) ELSE << >>,
                  1)
         ELSE << >>,
     panic |-> FALSE]

\* EncodingType of the order and of the direct literals; eager direct
\* literals require eager order literals.
Encodings == {<<"Eager", "Eager">>, <<"Eager", "Lazy">>, <<"Lazy", "Lazy">>}
\* The meanings a literal is requested for.
Meanings ==
    UNION {{Less(i), GreaterEq(i), Eq(i), NotEq(i)} : i \in (EncLb - 1)..(EncUb + 1)}

EncCall(call, arg, result) == [call |-> call, arg |-> arg, result |-> result]

InitEncoding ==
    /\ \E e \in Encodings : state = new_in(EncDomain, EncLen, e[1], e[2])
    /\ ret = EncCall("new_in", 0, None)
    /\ oracle = 0
    /\ marks = << >>

\* Solver::get_intref_lit
GetIntrefLit(meaning) ==
    /\ ~state.panic
    /\ state' = Solver_get_intref_lit(state, meaning).s
    /\ ret' = EncCall("get_intref_lit", meaning,
                      Some(Solver_get_intref_lit(state, meaning).view))
    /\ UNCHANGED <<oracle, marks>>

NextEncoding == \E meaning \in Meanings : GetIntrefLit(meaning)

Encoding == InitEncoding /\ [][NextEncoding]_vars

\* The nodes met by following next from node i, at most fuel of them.
RECURSIVE Walk(_, _, _)
Walk(oe, i, fuel) ==
    IF fuel = 0 THEN << >>
    ELSE <<i>> \o (IF At(oe, i).has_next THEN Walk(oe, At(oe, i).next, fuel - 1)
                   ELSE << >>)

Indices(oe) == 0..(Len(oe.storage) - 1)

SortedList(oe, w) ==
    /\ Len(w) = Len(oe.storage)
    /\ Range(w) = Indices(oe)
    /\ \A j \in 1..(Len(w) - 1) : At(oe, w[j]).val < At(oe, w[j + 1]).val
    /\ w[Len(w)] = oe.max_index
    /\ ~At(oe, oe.max_index).has_next
    /\ ~At(oe, oe.min_index).has_prev
    /\ \A i, j \in Indices(oe) :
          (At(oe, i).has_next /\ At(oe, i).next = j)
          <=> (At(oe, j).has_prev /\ At(oe, j).prev = i)

\* C19: whatever literals were requested of a variable with lazy order
\* literals, following next from the minimum node visits every node once, in
\* strictly increasing order of value, and ends at the maximum node, and
\* prev is the inverse of next.
C19_NodesSorted ==
    state.order_encoding.kind = "Lazy" /\ ~is_empty(state.order_encoding)
    => SortedList(state.order_encoding,
                  Walk(state.order_encoding, state.order_encoding.min_index,
                       Len(state.order_encoding.storage) + 1))

\* Every order value has its node, and the nodes were created out of order:
\* the first created is neither the minimum nor the maximum.
C19_Witness ==
    /\ state.order_encoding.kind = "Lazy"
    /\ Len(state.order_encoding.storage) = EncLen - 1
    /\ state.order_encoding.min_index # 0
    /\ state.order_encoding.max_index # 0
    /\ ret.call = "get_intref_lit"

\* The value after v in the initial domain.
NextDomainValue(v) ==
    CHOOSE w \in EncValues : w > v /\ \A u \in EncValues : u > v => w <= u

\* The direct literals that exist: their value and variable.
DirectLits(s) ==
    {[val |-> v,
      var |-> Unwrap(DirectStorage_find(s.direct_encoding, s.domain, v)).lit] :
        v \in {u \in EncValues \ {EncLb, EncUb} :
                 DirectStorage_find(s.direct_encoding, s.domain, u) # None}}

\* The variable of the order literal x < v, read off the encoding.
OrderVarOf(s, v) ==
    IF s.order_encoding.kind = "Eager"
    THEN s.order_encoding.vars[Cardinality({u \in EncValues : u < v})]
    ELSE (CHOOSE n \in Range(s.order_encoding.storage) : n.val = v).var

HasOrderLit(s, v) ==
    s.order_encoding.kind = "Eager"
    \/ \E n \in Range(s.order_encoding.storage) : n.val = v

\* The clauses of s that mention variable v.
Mentioning(s, v) ==
    {k \in DOMAIN s.clauses : \E j \in DOMAIN s.clauses[k] :
        LitVar(s.clauses[k][j]) = v}

DefinedBy(s, d) ==
    /\ HasOrderLit(s, d.val) /\ HasOrderLit(s, NextDomainValue(d.val))
    /\ Cardinality(Mentioning(s, d.var)) = 3
    /\ {Range(s.clauses[k]) : k \in Mentioning(s, d.var)}
         = {{0 - d.var, 0 - OrderVarOf(s, d.val)},
            {0 - d.var, OrderVarOf(s, NextDomainValue(d.val))},
            {d.var, OrderVarOf(s, d.val),
             0 - OrderVarOf(s, NextDomainValue(d.val))}}

\* C20: every direct literal E of a value v, created with the variable or on
\* request, is mentioned by exactly three clauses: E implies not L, E implies
\* L', and not E implies L or not L', L being the order literal of x < v and
\* L' the order literal of x < w for the next value w of the domain after v.
C20_DirectDefined ==
    ~state.panic => \A d \in DirectLits(state) : DefinedBy(state, d)

\* A direct literal was just created on request for the value before the
\* gap, and direct literals exist for every interior value.
C20_Witness ==
    /\ state.direct_encoding.kind = "Lazy"
    /\ ret.call = "get_intref_lit" /\ ret.arg \in {Eq(EncDomain[1][2]), NotEq(EncDomain[1][2])}
    /\ {d.val : d \in DirectLits(state)} = EncValues \ {EncLb, EncUb}
    /\ NextDomainValue(EncDomain[1][2]) > EncDomain[1][2] + 1


\* The assignments of the variables created so far that satisfy every
\* clause handed to the oracle.
Models(s) ==
    {a \in [1..(s.next_var - 1) -> BOOLEAN] :
       \A k \in DOMAIN s.clauses : \E j \in DOMAIN s.clauses[k] :
          a[LitVar(s.clauses[k][j])] = ~is_negated(s.clauses[k][j])}

\* C21: a variable with eager order literals has, from its creation on, the
\* clause (not L_i or L_i+1) for each two consecutive order literals, and no
\* assignment satisfying the clauses of the oracle makes L_i true and L_i+1
\* false.
C21_OrderChained ==
    state.order_encoding.kind = "Eager"
    => \A k \in 1..(Len(state.order_encoding.vars) - 1) :
          /\ \E c \in DOMAIN state.clauses :
                state.clauses[c] = <<0 - state.order_encoding.vars[k],
                                     state.order_encoding.vars[k + 1]>>
          /\ \A a \in Models(state) :
                a[state.order_encoding.vars[k]]
                => a[state.order_encoding.vars[k + 1]]

\* The variable was just created with eager order literals for each of its
\* values but the least, and the oracle has assignments left.
C21_Witness ==
    /\ ret.call = "new_in"
    /\ state.order_encoding.kind = "Eager"
    /\ Len(state.order_encoding.vars) = EncLen - 1
    /\ Models(state) # {}


\* C22: when get_bool_lit finds a view for a meaning, bool_lit returns that
\* view for it and allocates no variable; and when bool_lit returned a
\* literal, created or not, get_bool_lit finds that literal afterwards.
C22_LookupAgrees ==
    [][ret'.call = "get_intref_lit"
         => /\ get_bool_lit(state, ret'.arg) # None
               => /\ ret'.result = get_bool_lit(state, ret'.arg)
                  /\ state'.next_var = state.next_var
            /\ ~Unwrap(ret'.result).const
               => get_bool_lit(state', ret'.arg) = ret'.result]_vars

\* A request for a value of the gap created the order literal of the next
\* value; a direct literal was created on request.
C22_Witness ==
    /\ ret.call = "get_intref_lit"
    /\ get_bool_lit(state, ret.arg) = ret.result
    /\ ret.arg = Less(EncDomain[1][2] + 1)
    /\ state.order_encoding.kind = "Lazy"
    /\ \E n \in Range(state.order_encoding.storage) :
          /\ n.val = EncDomain[2][1]
          /\ ret.result = Some(ViewLit(n.var))
          /\ n.var = state.next_var - 1
    /\ state.direct_encoding.map # {}


\* The loop of IntVar::lit_meaning over the ranges of the domain.
RECURSIVE value_at(_, _, _)
value_at(domain, offset, k) ==
    IF offset < domain[k][2] - domain[k][1] + 1 THEN domain[k][1] + offset
    ELSE value_at(domain, offset - (domain[k][2] - domain[k][1] + 1), k + 1)

\* VarRange::find
var_index(range, var) == CHOOSE k \in DOMAIN range : range[k] = var

\* The meaning read with the position in the range taken as the offset.
lit_meaning_unshifted(s, lit) ==
    IF LitVar(lit) \in Range(s.order_encoding.vars)
    THEN Some(IF is_negated(lit)
              THEN NotMeaning(Less(value_at(s.domain,
                       var_index(s.order_encoding.vars, LitVar(lit)) - 1, 1)))
              ELSE Less(value_at(s.domain,
                       var_index(s.order_encoding.vars, LitVar(lit)) - 1, 1)))
    ELSE None

\* IntVar::lit_meaning of a variable with eager order literals; nothing
\* where the source is unreachable!().  (The position counts from 1 here,
\* so it is the offset + 1 of the source.)
IntVar_lit_meaning(s, lit) ==
    IF LitVar(lit) \in Range(s.order_encoding.vars)
    THEN Some(IF is_negated(lit)
              THEN NotMeaning(Less(value_at(s.domain,
                       var_index(s.order_encoding.vars, LitVar(lit)), 1)))
              ELSE Less(value_at(s.domain,
                       var_index(s.order_encoding.vars, LitVar(lit)), 1)))
    ELSE IF s.direct_encoding.kind = "Eager"
            /\ LitVar(lit) \in Range(s.direct_encoding.vars)
    THEN Some(IF is_negated(lit)
              THEN NotMeaning(Eq(value_at(s.domain,
                       var_index(s.direct_encoding.vars, LitVar(lit)), 1)))
              ELSE Eq(value_at(s.domain,
                       var_index(s.direct_encoding.vars, LitVar(lit)), 1)))
    ELSE None

\* Whether the value x satisfies the meaning m.
Satisfies(x, m) ==
    CASE m.m = "Less" -> x < m.v
      [] m.m = "GreaterEq" -> x >= m.v
      [] m.m = "Eq" -> x = m.v
      [] OTHER -> x # m.v

\* The meanings that the eager literals are created for: the order meanings
\* of the values above the least, the direct meanings of the interior values.
Canonical(m) ==
    IF m.m \in {"Less", "GreaterEq"} THEN m.v \in EncValues \ {EncLb}
    ELSE m.v \in EncValues \ {EncLb, EncUb}

\* The meanings whose lookup yields a literal that was created eagerly.
EagerlyFound(s) ==
    {m \in Meanings :
       /\ get_bool_lit(s, m) # None
       /\ ~Unwrap(get_bool_lit(s, m)).const
       /\ \/ LitVar(Unwrap(get_bool_lit(s, m)).lit) \in Range(s.order_encoding.vars)
          \/ /\ s.direct_encoding.kind = "Eager"
             /\ LitVar(Unwrap(get_bool_lit(s, m)).lit)
                   \in Range(s.direct_encoding.vars)}

\* C23 as stated: on a variable with eager literals, lit_meaning of the
\* literal found for a meaning m is m.
C23_MeaningRoundTrip ==
    state.order_encoding.kind = "Eager"
    => \A m \in EagerlyFound(state) :
          IntVar_lit_meaning(state, Unwrap(get_bool_lit(state, m)).lit) = Some(m)

\* C23: on a variable with eager literals, lit_meaning of the literal found
\* for a meaning m is a meaning that the same values of the domain satisfy
\* as m, and it is m itself when m is the order meaning of a value of the
\* domain above the least or the direct meaning of an interior value.
C23_MeaningEquivalent ==
    state.order_encoding.kind = "Eager"
    => \A m \in EagerlyFound(state) :
          /\ IntVar_lit_meaning(state, Unwrap(get_bool_lit(state, m)).lit) # None
          /\ \A x \in EncValues :
                Satisfies(x, m)
                <=> Satisfies(x, Unwrap(IntVar_lit_meaning(
                                     state, Unwrap(get_bool_lit(state, m)).lit)))
          /\ Canonical(m)
                => IntVar_lit_meaning(state, Unwrap(get_bool_lit(state, m)).lit)
                     = Some(m)

\* Eager order and direct literals: the direct meaning of an interior value
\* comes back as it is, and the literal found for the value in the gap means
\* the order meaning of the next value of the domain.
C23_Witness ==
    /\ state.order_encoding.kind = "Eager" /\ state.direct_encoding.kind = "Eager"
    /\ ret.call = "get_intref_lit"
    /\ Eq(EncDomain[2][1]) \in EagerlyFound(state)
    /\ Less(EncDomain[1][2] + 1) \in EagerlyFound(state)
    /\ IntVar_lit_meaning(
           state, Unwrap(get_bool_lit(state, Less(EncDomain[1][2] + 1))).lit)
         = Some(Less(EncDomain[2][1]))


\* What the two lookups answer for the meaning m in the current state.
Lookups(m) == {get_bool_lit(state, m), Some(bool_lit(state, m).view)}

\* C24 as stated: Less(v) is looked up as the constant true both for v at or
\* below the lower bound and for v above the upper bound, GreaterEq(v) as the
\* constant false.
C24_TrueAtBothEnds ==
    \A v \in ((EncLb - 1)..EncLb) \cup {EncUb + 1} :
       /\ Lookups(Less(v)) = {Some(ViewConst(TRUE))}
       /\ Lookups(GreaterEq(v)) = {Some(ViewConst(FALSE))}

\* C24: Less(v) is looked up as the constant false for v at or below the
\* lower bound of the domain and as the constant true for v above its upper
\* bound; GreaterEq(v) as the constant true and the constant false.  Neither
\* lookup creates a literal.
C24_ConstantsAtEnds ==
    /\ \A v \in (EncLb - 1)..EncLb :
          /\ Lookups(Less(v)) = {Some(ViewConst(FALSE))}
          /\ Lookups(GreaterEq(v)) = {Some(ViewConst(TRUE))}
          /\ bool_lit(state, Less(v)).s = state
          /\ bool_lit(state, GreaterEq(v)).s = state
    /\ Lookups(Less(EncUb + 1)) = {Some(ViewConst(TRUE))}
    /\ Lookups(GreaterEq(EncUb + 1)) = {Some(ViewConst(FALSE))}
    /\ bool_lit(state, Less(EncUb + 1)).s = state
    /\ bool_lit(state, GreaterEq(EncUb + 1)).s = state

\* Less of the lower bound was just requested of a variable with lazy
\* literals, some of them created, and the answer was the constant false.
C24_Witness ==
    /\ ret = EncCall("get_intref_lit", Less(EncLb), Some(ViewConst(FALSE)))
    /\ state.order_encoding.kind = "Lazy"
    /\ ~is_empty(state.order_encoding)


(***************************************************************************)
(* Linear transformations of literal meanings                              *)
(* (helpers/linear_transform.rs, helpers.rs).                              *)
(***************************************************************************)
MaxScale == 2
MaxOffset == 2
MaxVal == 2

\* The operators / and % of IntVal: the quotient is truncated towards zero.
Magnitude(a) == IF a < 0 THEN 0 - a ELSE a
Quot(a, b) ==
    IF (a < 0) = (b < 0) THEN Magnitude(a) \div Magnitude(b)
    ELSE 0 - (Magnitude(a) \div Magnitude(b))
Rem(a, b) == a - b * Quot(a, b)

\* helpers::div_ceil
div_ceil(a, b) ==
    IF (Rem(a, b) > 0 /\ b > 0) \/ (Rem(a, b) < 0 /\ b < 0)
    THEN Quot(a, b) + 1 ELSE Quot(a, b)

LinearTransform(scale, offset) == [scale |-> scale, offset |-> offset]
\* LinearTransform::positive_scale
positive_scale(t) == t.scale > 0
\* LinearTransform::rev_remains_integer
rev_remains_integer(t, val) == Rem(val - t.offset, t.scale) = 0
\* LinearTransform::rev_transform
rev_transform(t, val) == Quot(val - t.offset, t.scale)
\* LinearTransform::transform
transform(t, val) == (val * t.scale) + t.offset
\* impl Neg for LinearTransform
neg(t) == LinearTransform(0 - t.scale, 0 - t.offset)

\* The first step of transform_lit and rev_transform_lit: with a negative
\* scale an order meaning is turned around and the transformation negated.
made_positive(t, lit) ==
    IF ~positive_scale(t) /\ lit.m = "GreaterEq"
    THEN [lit |-> Less(0 - lit.v + 1), transformer |-> neg(t)]
    ELSE IF ~positive_scale(t) /\ lit.m = "Less"
    THEN [lit |-> GreaterEq(0 - lit.v + 1), transformer |-> neg(t)]
    ELSE [lit |-> lit, transformer |-> t]

\* LinearTransform::rev_transform_lit (p is what the first step made).
rev_transform_made(p) ==
    CASE p.lit.m = "Eq" ->
           IF rev_remains_integer(p.transformer, p.lit.v)
           THEN Ok(Eq(rev_transform(p.transformer, p.lit.v))) ELSE Err(FALSE)
      [] p.lit.m = "NotEq" ->
           IF rev_remains_integer(p.transformer, p.lit.v)
           THEN Ok(NotEq(rev_transform(p.transformer, p.lit.v))) ELSE Err(TRUE)
      [] p.lit.m = "GreaterEq" ->
           Ok(GreaterEq(div_ceil(p.lit.v - p.transformer.offset,
                                 p.transformer.scale)))
      [] OTHER ->
           Ok(Less(div_ceil(p.lit.v - p.transformer.offset, p.transformer.scale)))
rev_transform_lit(t, lit) == rev_transform_made(made_positive(t, lit))

\* LinearTransform::transform_lit
transform_made(p) == [p.lit EXCEPT !.v = transform(p.transformer, p.lit.v)]
transform_lit(t, lit) == transform_made(made_positive(t, lit))

\* The transformations and the meanings the functions are applied to.
Transforms ==
    {LinearTransform(scale, offset) :
       scale \in ((0 - MaxScale)..MaxScale) \ {0},
       offset \in (0 - MaxOffset)..MaxOffset}
IntLitMeanings ==
    UNION {{Less(v), GreaterEq(v), Eq(v), NotEq(v)} : v \in (0 - MaxVal)..MaxVal}

InitTransforming ==
    /\ \E t \in Transforms, lit \in IntLitMeanings :
          state = [transformer |-> t, lit |-> lit]
    /\ ret = EncCall("new", 0, None)
    /\ oracle = 0
    /\ marks = << >>

\* transform_lit applied to the meaning at hand.
TransformLit ==
    /\ ret.call = "new"
    /\ state' = [state EXCEPT
                   !.lit = transform_lit(state.transformer, state.lit)]
    /\ ret' = EncCall("transform_lit", state.lit, Some(Ok(state'.lit)))
    /\ UNCHANGED <<oracle, marks>>

\* rev_transform_lit applied to the meaning at hand.
RevTransformLit ==
    /\ ret.call \in {"new", "transform_lit"}
    /\ ret' = EncCall("rev_transform_lit", state.lit,
                      Some(rev_transform_lit(state.transformer, state.lit)))
    /\ state' = IF Unwrap(ret'.result).ok
                THEN [state EXCEPT !.lit = Unwrap(Unwrap(ret'.result).reason)]
                ELSE state
    /\ UNCHANGED <<oracle, marks>>

NextTransforming == TransformLit \/ RevTransformLit

Transforming == InitTransforming /\ [][NextTransforming]_vars

\* C25: for every transformation and every meaning GreaterEq(v) or Less(v),
\* rev_transform_lit of transform_lit of the meaning is the meaning.
C25_RoundTrip ==
    [][ret.call = "transform_lit" /\ ret'.call = "rev_transform_lit"
       /\ ret.arg.m \in {"GreaterEq", "Less"}
         => ret'.result = Some(Ok(ret.arg))]_vars


(***************************************************************************)
(* Reasons built from views (propagator.rs) and what is made of them.      *)
(***************************************************************************)
MaxViews == 3
\* The views a reason is collected from, and the literal it is about.
ReasonViews == {ViewConst(TRUE), ViewConst(FALSE), ViewLit(1), ViewLit(-2)}
ViewSeqs == UNION {[1..n -> ReasonViews] : n \in 0..MaxViews}
Explained == 3

InitReasoning ==
    /\ state = InitState
    /\ ret = EncCall("new", << >>, None)
    /\ oracle = [built |-> None]
    /\ marks = << >>

\* Reason::from_iter
FromIter(views) ==
    /\ ~state.trail.panic
    /\ ret' = EncCall("from_iter", views, Some(from_iter(views)))
    /\ oracle' = [built |-> Some(from_iter(views))]
    /\ UNCHANGED <<state, marks>>

\* State::register_reason with the reason built last.
RegisterReason ==
    /\ ~state.trail.panic /\ ret.call = "from_iter"
    /\ state' = register_reason(state, Explained, Unwrap(oracle.built))
    /\ ret' = EncCall("register_reason", Explained, oracle.built)
    /\ UNCHANGED <<oracle, marks>>

\* Conflict::new with the reason built last.
ConflictNew(subject) ==
    /\ ~state.trail.panic /\ ret.call = "from_iter"
    /\ ret' = EncCall("Conflict_new", subject,
                      Some(Conflict_new(subject, Unwrap(oracle.built))))
    /\ state' = [state EXCEPT
                   !.trail.panic = Conflict_new(subject,
                                                Unwrap(oracle.built)).panic]
    /\ UNCHANGED <<oracle, marks>>

NextReasoning ==
    \/ \E views \in ViewSeqs : FromIter(views)
    \/ RegisterReason
    \/ \E subject \in {None, Some(Explained)} : ConflictNew(subject)

Reasoning == InitReasoning /\ [][NextReasoning]_vars

\* The literals among the views, in their order.
LitsOf(views) ==
    [k \in DOMAIN SelectSeq(views, LAMBDA v : ~v.const) |->
       SelectSeq(views, LAMBDA v : ~v.const)[k].lit]
HasFalse(views) == \E k \in DOMAIN views : views[k] = ViewConst(FALSE)

\* C26 as stated: a reason collected from views that include the constant
\* false is Err(true), and what is made of it goes through.
C26_FalseCollapses ==
    [][/\ ret'.call = "from_iter" /\ HasFalse(ret'.arg)
          => ret'.result = Some(Err(TRUE))
       /\ ret.call = "from_iter" /\ HasFalse(ret.arg)
          /\ ret'.call = "register_reason"
          => ~state'.trail.panic]_vars

\* C26: constant-true views are dropped from a reason.  When no literal is
\* left the result is Err(true): registering it removes any earlier reason
\* of the literal, and a conflict about a literal is built with that literal
\* alone as its clause.  A constant-false view makes the result Err(false),
\* and registering it or building a conflict from it aborts.
C26_ReasonFromViews ==
    [][/\ ret'.call = "from_iter"
          => ret'.result =
               Some(CASE HasFalse(ret'.arg) -> Err(FALSE)
                      [] ~HasFalse(ret'.arg) /\ Len(LitsOf(ret'.arg)) = 0 ->
                           Err(TRUE)
                      [] ~HasFalse(ret'.arg) /\ Len(LitsOf(ret'.arg)) = 1 ->
                           Ok(Simple(LitsOf(ret'.arg)[1]))
                      [] OTHER -> Ok(Eager(LitsOf(ret'.arg))))
       /\ ret.call = "from_iter" /\ ret'.call = "register_reason"
          => IF HasFalse(ret.arg) THEN state'.trail.panic
             ELSE /\ ~state'.trail.panic
                  /\ LitsOf(ret.arg) = << >>
                        => state'.reason_map[Explained] = None
       /\ ret.call = "from_iter" /\ ret'.call = "Conflict_new"
          => IF HasFalse(ret.arg) THEN state'.trail.panic
             ELSE LitsOf(ret.arg) = << >> /\ ret'.arg # None
                  => /\ ~state'.trail.panic
                     /\ Unwrap(ret'.result).subject = None
                     /\ Reason_explain(state', Unwrap(ret'.result).reason,
                                        Unwrap(ret'.result).subject)
                           = <<Unwrap(ret'.arg)>>]_vars

\* A reason of constant-true views only was registered, and the literal it
\* is about is left without a reason.
C26_Witness ==
    /\ ret.call = "register_reason" /\ ret.result = Some(Err(TRUE))
    /\ state.reason_map[Explained] = None
    /\ ~state.trail.panic
    /\ marks = << >> /\ oracle.built = Some(Err(TRUE))

(***************************************************************************)
(* The search driver (solver.rs): solve_assuming, all_solutions and        *)
(* branch_and_bound, over an oracle that answers a solve with any          *)
(* assignment that satisfies the constraints, its clauses and the          *)
(* assumptions.  The solver has one integer variable with eager literals   *)
(* and one Boolean variable.                                               *)
(***************************************************************************)
MaxCalls == 2
MaxAssumptions == 2
ObjDomain == << <<1, 2>>, <<4, 4>> >>
ObjValues == UNION {ObjDomain[k][1]..ObjDomain[k][2] : k \in DOMAIN ObjDomain}
BoolVar == 4

\* IntView, View and Value
NoTransform == LinearTransform(1, 0)
IntVarRefView == [kind |-> "VarRef", c |-> 0, transformer |-> NoTransform]
IntConstView(c) == [kind |-> "Const", c |-> c, transformer |-> NoTransform]
IntLinearView(t) == [kind |-> "Linear", c |-> 0, transformer |-> t]
ViewBool(bv) == [int |-> FALSE, bool |-> bv, iv |-> IntConstView(0)]
ViewInt(iv) == [int |-> TRUE, bool |-> ViewConst(FALSE), iv |-> iv]
ValueBool(b) == [int |-> FALSE, b |-> b, i |-> 0]
ValueInt(i) == [int |-> TRUE, b |-> FALSE, i |-> i]

\* The solver before its first solve: the trail holds the bounds of the
\* domain, the constraints allow the assignments of `problem`.
NewSolver(problem) ==
    [int_var |-> new_in(ObjDomain, Cardinality(ObjValues), "Eager", "Eager"),
     lb |-> ObjDomain[1][1], ub |-> ObjDomain[Len(ObjDomain)][2],
     problem |-> problem, clauses |-> {}, empty |-> FALSE,
     calls |-> 0, pc |-> "idle", vars |-> << >>, num_sol |-> 0,
     objective |-> IntVarRefView, goal |-> "Minimize", obj_curr |-> None,
     obj_bound |-> 0, assump |-> None]

\* DecisionActions::get_int_lit, for a variable whose literals exist.
get_int_lit_of(s, var, rev) ==
    IF ~rev.ok THEN ViewConst(rev.err)
    ELSE IF var.kind = "Const"
    THEN ViewConst(Satisfies(var.c, Unwrap(rev.reason)))
    ELSE bool_lit(s.int_var, Unwrap(rev.reason)).view
get_int_lit(s, var, meaning) ==
    get_int_lit_of(s, var,
                   IF var.kind = "Linear"
                   THEN rev_transform_lit(var.transformer, meaning)
                   ELSE Ok(meaning))

\* InspectionActions for State: the bounds are read from the trail.
get_int_lower_bound(s, var) ==
    CASE var.kind = "VarRef" -> s.lb
      [] var.kind = "Const" -> var.c
      [] OTHER -> IF positive_scale(var.transformer)
                  THEN transform(var.transformer, s.lb)
                  ELSE transform(var.transformer, s.ub)
get_int_upper_bound(s, var) ==
    CASE var.kind = "VarRef" -> s.ub
      [] var.kind = "Const" -> var.c
      [] OTHER -> IF positive_scale(var.transformer)
                  THEN transform(var.transformer, s.ub)
                  ELSE transform(var.transformer, s.lb)

\* The value of a literal in an assignment of the oracle: a literal of the
\* integer variable is true exactly when the value satisfies its meaning.
sol_value(s, sol, lit) ==
    IF LitVar(lit) = BoolVar THEN sol.b = ~is_negated(lit)
    ELSE Satisfies(sol.x, Unwrap(IntVar_lit_meaning(s.int_var, lit)))

\* The valuation handed to on_sol in Solver::solve_assuming; the integer
\* value is the lower bound on the trail, which the oracle left at sol.
value(s, sol, view) ==
    IF view.int
    THEN ValueInt(CASE view.iv.kind = "VarRef" -> s.lb
                    [] view.iv.kind = "Const" -> view.iv.c
                    [] OTHER -> transform(view.iv.transformer, s.lb))
    ELSE ValueBool(IF view.bool.const THEN view.bool.val
                   ELSE sol_value(s, sol, view.bool.lit))

\* What the oracle may answer to a solve under the assumptions.
OracleSolutions(s, assumptions) ==
    IF s.empty THEN {}
    ELSE {sol \in s.problem :
            /\ \A c \in s.clauses : \E l \in c : sol_value(s, sol, l)
            /\ \A k \in DOMAIN assumptions : sol_value(s, sol, assumptions[k])}
Answer(result, sol) == [result |-> result, sol |-> sol]
OracleAnswers(s, assumptions) ==
    {Answer("Satisfied", Some(sol)) : sol \in OracleSolutions(s, assumptions)}
    \cup (IF OracleSolutions(s, assumptions) = {}
          THEN {Answer("Unsatisfiable", None)} ELSE {})
    \cup {Answer("Unknown", None)}
\* The trail when the oracle returns: at the assignment it found, else at
\* the root.
solved(s, answer) ==
    IF answer.result = "Satisfied"
    THEN [s EXCEPT !.lb = Unwrap(answer.sol).x, !.ub = Unwrap(answer.sol).x]
    ELSE [s EXCEPT !.lb = ObjDomain[1][1], !.ub = ObjDomain[Len(ObjDomain)][2]]

\* impl AssumptionChecker for NoAssumptions
NoAssumptions_fail(bv) == bv.const /\ ~bv.val

\* Every assumption given to the oracle, the constant false among them left
\* out like the constant true.
solve_assuming_unchecked(s, assumptions, answer) ==
    [s |-> solved(s, answer), status |-> answer.result,
     on_sol |-> answer.sol,
     on_fail |-> IF answer.result = "Unsatisfiable"
                 THEN <<"FailedAssumptions">> ELSE << >>,
     passed |-> Some(view_lits(assumptions))]

\* Solver::solve_assuming; `answer` is what the oracle returns when it is
\* asked, `passed` the assumptions it is asked with.
solve_assuming(s, assumptions, answer) ==
    IF \E k \in DOMAIN assumptions : assumptions[k] = ViewConst(FALSE)
    THEN [s |-> s, status |-> "Unsatisfiable", on_sol |-> None,
          on_fail |-> <<"NoAssumptions">>, passed |-> None]
    ELSE [s |-> solved(s, answer), status |-> answer.result,
          on_sol |-> answer.sol,
          on_fail |-> IF answer.result = "Unsatisfiable"
                      THEN <<"FailedAssumptions">> ELSE << >>,
          passed |-> Some(view_lits(assumptions))]

\* Solver::solve
solve(s, answer) == solve_assuming(s, << >>, answer)

\* ClauseDatabaseTools::add_clause over views: a clause with a constant true
\* is satisfied and not added, constant-false views are left out, and the
\* empty clause is refused as unsatisfiable.
add_clause(s, clause) ==
    IF \E k \in DOMAIN clause : clause[k] = ViewConst(TRUE)
    THEN [s |-> s, ok |-> TRUE]
    ELSE IF view_lits(clause) = << >>
    THEN [s |-> [s EXCEPT !.empty = TRUE], ok |-> FALSE]
    ELSE [s |-> [s EXCEPT !.clauses = @ \cup {Range(view_lits(clause))}],
          ok |-> TRUE]

\* The literal of a no-good that asks for the value again.
no_good_lit_same(s, var, val) ==
    IF var.int THEN get_int_lit(s, var.iv, Eq(val.i))
    ELSE IF val.b THEN var.bool ELSE not_view(var.bool)

\* The closure of Solver::add_no_good
no_good_lit(s, var, val) ==
    IF var.int THEN get_int_lit(s, var.iv, NotEq(val.i))
    ELSE IF val.b THEN not_view(var.bool) ELSE var.bool

\* Solver::add_no_good
add_no_good(s, views, vals) ==
    add_clause(s, [k \in DOMAIN views |-> no_good_lit(s, views[k], vals[k])])

Iteration(s, returned, solved_as, assumed) ==
    [s |-> s, returned |-> returned, solved_as |-> solved_as,
     assumed |-> assumed]

\* One turn of the loop of Solver::all_solutions; r is what solve returned,
\* ng what add_no_good returned after a solution.
all_solutions_added(r, ng) ==
    Iteration([ng.s EXCEPT !.num_sol = @ + 1],
              IF ng.ok THEN None ELSE Some("Complete"), r, << >>)
all_solutions_turn(s, r) ==
    CASE r.status = "Satisfied" ->
           all_solutions_added(
               r, add_no_good(r.s, s.vars,
                              [k \in DOMAIN s.vars |->
                                 value(r.s, Unwrap(r.on_sol), s.vars[k])]))
      [] r.status = "Unsatisfiable" ->
           Iteration(r.s, Some(IF s.num_sol = 0 THEN "Unsatisfiable"
                               ELSE "Complete"), r, << >>)
      [] OTHER ->
           Iteration(r.s, Some(IF s.num_sol = 0 THEN "Unknown"
                               ELSE "Satisfied"), r, << >>)
all_solutions(s, answer) == all_solutions_turn(s, solve(s, answer))

\* One turn of the loop of Solver::branch_and_bound; r is what
\* solve_assuming returned under the assumption `assump`, obj_curr the
\* objective after on_sol.
next_assump(s, obj_curr) ==
    IF s.goal = "Minimize"
    THEN get_int_lit(s, s.objective, Less(Unwrap(obj_curr)))
    ELSE get_int_lit(s, s.objective, GreaterEq(Unwrap(obj_curr) + 1))
branch_and_bound_turn(s, r, assumed, obj_curr) ==
    CASE r.status = "Satisfied" ->
           IF obj_curr = Some(s.obj_bound)
           THEN Iteration([r.s EXCEPT !.obj_curr = obj_curr],
                          Some(<<"Complete", obj_curr>>), r, assumed)
           ELSE Iteration([r.s EXCEPT !.obj_curr = obj_curr,
                                      !.assump = Some(next_assump(r.s, obj_curr))],
                          None, r, assumed)
      [] r.status = "Unsatisfiable" ->
           Iteration(r.s, Some(IF obj_curr = None
                               THEN <<"Unsatisfiable", None>>
                               ELSE <<"Complete", obj_curr>>), r, assumed)
      [] OTHER ->
           Iteration(r.s, Some(IF obj_curr = None
                               THEN <<"Unknown", None>>
                               ELSE <<"Satisfied", obj_curr>>), r, assumed)
branch_and_bound_solved(s, r, assumed) ==
    branch_and_bound_turn(
        s, r, assumed,
        IF r.on_sol = None THEN s.obj_curr
        ELSE Some(value(r.s, Unwrap(r.on_sol), ViewInt(s.objective)).i))
Assump(s) == IF s.assump = None THEN << >> ELSE <<Unwrap(s.assump)>>
branch_and_bound(s, answer) ==
    branch_and_bound_solved(s, solve_assuming(s, Assump(s), answer), Assump(s))

\* The inputs of the driver.
AssumptionViews ==
    {ViewConst(TRUE), ViewConst(FALSE), ViewLit(BoolVar), ViewLit(0 - BoolVar),
     ViewLit(1)}
AssumptionSeqs == UNION {[1..n -> AssumptionViews] : n \in 0..MaxAssumptions}
IntViews ==
    {IntVarRefView, IntConstView(2), IntLinearView(LinearTransform(0 - 1, 1)),
     IntLinearView(LinearTransform(2, 0))}
VarLists ==
    {<< >>, <<ViewInt(IntVarRefView)>>, <<ViewBool(ViewLit(BoolVar))>>,
     <<ViewInt(IntVarRefView), ViewBool(ViewLit(0 - BoolVar))>>,
     <<ViewInt(IntLinearView(LinearTransform(0 - 1, 1)))>>,
     <<ViewBool(ViewConst(TRUE)), ViewInt(IntConstView(2))>>}
\* The constraints posted: the values they allow, with the Boolean variable
\* free, fixed, or tied to the value.
Problems ==
    {[x : X, b : B] : X \in SUBSET ObjValues, B \in {{TRUE}, BOOLEAN}}
    \cup {{sol \in [x : ObjValues, b : BOOLEAN] : sol.b = (sol.x > 1)}}
\* What the oracle is asked with, or nothing when it is not asked.
Asked(s, assumptions) ==
    IF \E k \in DOMAIN assumptions : assumptions[k] = ViewConst(FALSE)
    THEN {Answer("Unknown", None)}
    ELSE OracleAnswers(s, view_lits(assumptions))

InitSolving ==
    /\ \E problem \in Problems : state = NewSolver(problem)
    /\ ret = EncCall("new", << >>, None)
    /\ oracle = None
    /\ marks = << >>

ResultOf(r) == [r EXCEPT !.s = 0]

\* Solver::solve_assuming
SolveAssuming(assumptions) ==
    /\ state.pc = "idle" /\ state.calls < MaxCalls
    /\ \E answer \in Asked(state, assumptions) :
          /\ state' = [solve_assuming(state, assumptions, answer).s
                         EXCEPT !.calls = @ + 1]
          /\ ret' = EncCall("solve_assuming", assumptions,
                            Some(ResultOf(solve_assuming(state, assumptions,
                                                         answer))))
          /\ oracle' = solve_assuming(state, assumptions, answer).passed
          /\ marks' = IF solve_assuming(state, assumptions, answer).on_sol = None
                      THEN << >>
                      ELSE <<Unwrap(solve_assuming(state, assumptions,
                                                   answer).on_sol)>>

\* Solver::all_solutions up to its loop
AllSolutions(views) ==
    /\ state.pc = "idle" /\ state.calls < MaxCalls
    /\ state' = [state EXCEPT !.pc = "all_solutions", !.calls = @ + 1,
                              !.vars = views, !.num_sol = 0]
    /\ ret' = EncCall("all_solutions", views, None)
    /\ oracle' = None
    /\ marks' = << >>

Turn(it) ==
    /\ state' = IF it.returned = None THEN it.s ELSE [it.s EXCEPT !.pc = "idle"]
    /\ ret' = [ret EXCEPT !.result =
                 Some([it EXCEPT !.s = 0, !.solved_as = ResultOf(@)])]
    /\ oracle' = it.solved_as.passed
    /\ marks' = IF it.solved_as.on_sol = None THEN marks
                ELSE Append(marks, Unwrap(it.solved_as.on_sol))

\* A turn of the loop of Solver::all_solutions
AllSolutionsLoop ==
    /\ state.pc = "all_solutions"
    /\ \E answer \in Asked(state, << >>) : Turn(all_solutions(state, answer))

\* Solver::branch_and_bound up to its loop
BranchAndBound(objective, goal) ==
    /\ state.pc = "idle" /\ state.calls < MaxCalls
    /\ state' = [state EXCEPT
                   !.pc = "branch_and_bound", !.calls = @ + 1,
                   !.objective = objective, !.goal = goal,
                   !.obj_curr = None, !.assump = None,
                   !.obj_bound = IF goal = "Minimize"
                                 THEN get_int_lower_bound(state, objective)
                                 ELSE get_int_upper_bound(state, objective)]
    /\ ret' = EncCall("branch_and_bound", <<objective, goal>>, None)
    /\ oracle' = None
    /\ marks' = << >>

\* A turn of the loop of Solver::branch_and_bound
BranchAndBoundLoop ==
    /\ state.pc = "branch_and_bound"
    /\ \E answer \in Asked(state, Assump(state)) :
          Turn(branch_and_bound(state, answer))

NextSolving ==
    \/ \E assumptions \in AssumptionSeqs : SolveAssuming(assumptions)
    \/ \E views \in VarLists : AllSolutions(views)
    \/ AllSolutionsLoop
    \/ \E objective \in IntViews, goal \in {"Minimize", "Maximize"} :
          BranchAndBound(objective, goal)
    \/ BranchAndBoundLoop

Solving == InitSolving /\ [][NextSolving]_vars


ObjectiveOf(s, sol) ==
    CASE s.objective.kind = "VarRef" -> sol.x
      [] s.objective.kind = "Const" -> s.objective.c
      [] OTHER -> transform(s.objective.transformer, sol.x)
Better(s, a, b) == IF s.goal = "Minimize" THEN a < b ELSE a > b
ViewHolds(s, bv, sol) ==
    IF bv.const THEN bv.val ELSE sol_value(s, sol, bv.lit)
Last(seq) == seq[Len(seq)]

\* What C28 says of a turn `it` of the loop from the solver s, the solutions
\* reported before and after it being `before` and `after`.
OptimumReturned(s, it, after) ==
    /\ it.returned # None
    /\ Unwrap(it.returned)[1] = "Complete"
    => /\ after # << >>
       /\ Unwrap(it.returned)[2] = Some(ObjectiveOf(s, Last(after)))
       /\ \A sol \in OracleSolutions(it.s, << >>) :
             ~Better(s, ObjectiveOf(s, sol), ObjectiveOf(s, Last(after)))
BoundAssumed(s, it) ==
    IF s.obj_curr = None THEN it.assumed = << >>
    ELSE /\ Len(it.assumed) = 1
         /\ \A sol \in [x : ObjValues, b : BOOLEAN] :
               ViewHolds(s, it.assumed[1], sol)
               <=> Better(s, ObjectiveOf(s, sol), Unwrap(s.obj_curr))
Improving(s, before, after) ==
    before # << >> /\ Len(after) > Len(before)
    => Better(s, ObjectiveOf(s, Last(after)), ObjectiveOf(s, Last(before)))

\* C28: when branch_and_bound returns Complete with a value, a solution
\* was reported, the value is the objective of the solution reported last,
\* and no assignment that satisfies the constraints and the clauses has a
\* strictly better objective; every solve after a solution with objective v
\* is made under one assumption, true exactly of the assignments whose
\* objective is strictly better than v, and each solution reported has a
\* strictly better objective than the one before.
C28_Optimum ==
    [][ret'.call = "branch_and_bound" /\ ret'.result # None
       => /\ OptimumReturned(state, [Unwrap(ret'.result) EXCEPT !.s = state'],
                             marks')
          /\ BoundAssumed(state, Unwrap(ret'.result))
          /\ Improving(state, marks, marks')]_vars

\* The same of a solver that branch_and_bound is the first to use.
C28_OptimumOfFresh ==
    [][ret'.call = "branch_and_bound" /\ ret'.result # None /\ state.calls = 1
       => /\ OptimumReturned(state, [Unwrap(ret'.result) EXCEPT !.s = state'],
                             marks')
          /\ BoundAssumed(state, Unwrap(ret'.result))
          /\ Improving(state, marks, marks')]_vars


\* Whether two assignments give every view of `views` the same value.
Agree(s, views, a, b) ==
    \A k \in DOMAIN views :
       value([s EXCEPT !.lb = a.x], a, views[k])
         = value([s EXCEPT !.lb = b.x], b, views[k])
NoRepeat(s, views, reported) ==
    \A i, j \in DOMAIN reported :
       i < j => ~Agree(s, views, reported[i], reported[j])
\* The oracle holds a clause that is false exactly of the assignments that
\* agree with sol on the views.
NoGoodOf(s, views, sol) ==
    \E c \in s.clauses :
       \A a \in [x : ObjValues, b : BOOLEAN] :
          (\A l \in c : ~sol_value(s, a, l)) <=> Agree(s, views, a, sol)

\* What C29 says of a turn `it` of the loop that left the solver as s.
Enumerated(s, it, before, after) ==
    /\ NoRepeat(s, s.vars, after)
    /\ it.solved_as.status = "Satisfied"
       => /\ Len(after) = Len(before) + 1
          /\ IF it.returned = None THEN NoGoodOf(s, s.vars, Last(after))
             ELSE it.returned = Some("Complete") /\ s.empty
    /\ it.solved_as.status = "Unsatisfiable"
       => it.returned = Some(IF before = << >> THEN "Unsatisfiable"
                             ELSE "Complete")
    /\ it.returned = Some("Complete")
       => it.solved_as.status \in {"Satisfied", "Unsatisfiable"}
    /\ it.returned = Some("Unsatisfiable") => after = << >>

\* C29: all_solutions reports no two solutions that give every view of
\* vars the same value.  After a solution the no-good clause over vars is
\* with the oracle before the next solve; the enumeration returns Complete
\* when that clause is refused, or when a solve is Unsatisfiable after a
\* solution was reported, and it returns Unsatisfiable only when none was.
C29_NoSolutionTwice ==
    [][ret'.call = "all_solutions" /\ ret'.result # None
       => Enumerated(state', Unwrap(ret'.result), marks, marks')]_vars

\* An enumeration over the integer variable alone returned Complete after
\* it had reported a solution for each of two values, on a problem that
\* has two solutions for one of them.
C29_Witness ==
    /\ ret.call = "all_solutions" /\ ret.result # None
    /\ ret.arg = <<ViewInt(IntVarRefView)>>
    /\ Unwrap(ret.result).returned = Some("Complete")
    /\ Len(marks) = 2
    /\ \E a \in state.problem : a.x = marks[1].x /\ a.b # marks[1].b

(***************************************************************************)
(* The disequality 2a + b + c # 6 over three variables of domain {1, 2}    *)
(* (constraints/int_linear.rs), enumerated by all_solutions.  The oracle   *)
(* decides and backtracks; its clauses, the no-goods of the enumeration,   *)
(* are kept as the assignments they forbid.                                *)
(***************************************************************************)
NumTerms == 3
Violation == 6
TermDomain == {1, 2}
Term(var, scale) == [var |-> var, transformer |-> LinearTransform(scale, 0)]
\* vec![a * 2, b, c]
Terms == <<Term(1, 2), Term(2, 1), Term(3, 1)>>
Unfixed == [i \in 1..NumTerms |-> TermDomain]
Tuple(dom) == [i \in 1..NumTerms |-> CHOOSE v \in dom[i] : TRUE]
Partial(dom) ==
    [i \in 1..NumTerms |->
       IF Cardinality(dom[i]) = 1 THEN CHOOSE v \in dom[i] : TRUE ELSE 0]
\* Whether the clause that forbids `pattern` is false under the domains.
Forbids(pattern, dom) ==
    \A i \in 1..NumTerms : pattern[i] # 0 => dom[i] = {pattern[i]}
Falsified_by(clauses, dom) == \E pattern \in clauses : Forbids(pattern, dom)

\* InspectionActions::get_int_val of a term
term_val(dom, t) ==
    IF Cardinality(dom[t.var]) = 1
    THEN Some(transform(t.transformer, CHOOSE v \in dom[t.var] : TRUE))
    ELSE None
RECURSIVE fixed_sum(_, _)
fixed_sum(dom, k) ==
    IF k = 0 THEN 0
    ELSE fixed_sum(dom, k - 1)
         + (IF term_val(dom, Terms[k]) = None THEN 0
            ELSE Unwrap(term_val(dom, Terms[k])))
unfixed_terms(dom) == {k \in 1..NumTerms : term_val(dom, Terms[k]) = None}

Propagation(kind, term, val) == [kind |-> kind, term |-> term, val |-> val]
\* The sum taken over the variables, their coefficients left out.
propagate_unscaled(dom) ==
    CASE Cardinality(unfixed_terms(dom)) > 1 -> Propagation("Ok", 0, 0)
      [] Cardinality(unfixed_terms(dom)) = 1 ->
           Propagation("set_int_not_eq", CHOOSE k \in unfixed_terms(dom) : TRUE,
                       Violation
                       - fixed_sum([i \in 1..NumTerms |->
                                      IF i = 1 /\ Cardinality(dom[i]) = 1
                                      THEN {}
                                      ELSE dom[i]], NumTerms)
                       - (IF Cardinality(dom[1]) = 1
                          THEN CHOOSE v \in dom[1] : TRUE ELSE 0))
      [] OTHER -> Propagation("Ok", 0, 0)

\* IntLinearNotEqValueImpl::propagate without reification
IntLinearNotEqValue_propagate(dom) ==
    CASE Cardinality(unfixed_terms(dom)) > 1 -> Propagation("Ok", 0, 0)
      [] Cardinality(unfixed_terms(dom)) = 1 ->
           Propagation("set_int_not_eq", CHOOSE k \in unfixed_terms(dom) : TRUE,
                       Violation - fixed_sum(dom, NumTerms))
      [] Cardinality(unfixed_terms(dom)) = 0
         /\ fixed_sum(dom, NumTerms) = Violation ->
           Propagation("set_bool", 0, 0)
      [] OTHER -> Propagation("Ok", 0, 0)

\* PropagationActions::set_int_not_eq on a term: the value of the variable
\* that the term may no longer take, if it is one.
not_eq_of(rev) ==
    IF rev.ok /\ Unwrap(rev.reason).v \in TermDomain
    THEN Some(Unwrap(rev.reason).v) ELSE None
set_int_not_eq(t, val) == not_eq_of(rev_transform_lit(t.transformer, NotEq(val)))

\* Engine::propagate running the propagator: the domains after it, whether
\* it failed, and whether it fixed a variable and is enqueued again.
propagated(s, p, removed) ==
    CASE p.kind = "set_bool" -> [s EXCEPT !.conflict = TRUE, !.enqueued = FALSE]
      [] p.kind = "set_int_not_eq" /\ removed # None ->
           [s EXCEPT !.dom[Terms[p.term].var] = @ \ {Unwrap(removed)},
                     !.enqueued = TRUE]
      [] OTHER -> [s EXCEPT !.enqueued = FALSE]
run_propagator(s, p) ==
    propagated(s, p, IF p.kind = "set_int_not_eq"
                     THEN set_int_not_eq(Terms[p.term], p.val) ELSE None)

\* Whether the oracle finds no assignment from the domains on: the
\* propagator fails or a clause is false, or some undecided variable is
\* refuted for each of its values.
RECURSIVE Refuted(_, _)
Refuted(clauses, s) ==
    IF s.conflict \/ Falsified_by(clauses, s.dom) THEN TRUE
    ELSE IF s.enqueued
    THEN Refuted(clauses,
                 run_propagator(s, IntLinearNotEqValue_propagate(s.dom)))
    ELSE \E i \in 1..NumTerms :
            /\ s.dom[i] = TermDomain
            /\ \A v \in TermDomain :
                  Refuted(clauses, [s EXCEPT !.dom[i] = {v}, !.enqueued = TRUE])

InitEnumerating ==
    /\ state = [dom |-> Unfixed, clauses |-> {}, enqueued |-> FALSE,
                conflict |-> FALSE, num_sol |-> 0, pc |-> "all_solutions"]
    /\ ret = EncCall("all_solutions", << >>, None)
    /\ oracle = None
    /\ marks = {}

\* The oracle decides a variable, and the engine enqueues the propagator
\* for the fixed variable.
DecideTerm(i, v) ==
    /\ state.pc = "all_solutions" /\ ~state.conflict /\ ~state.enqueued
    /\ state.dom[i] = TermDomain
    /\ ~Falsified_by(state.clauses, [state.dom EXCEPT ![i] = {v}])
    /\ state' = [state EXCEPT !.dom[i] = {v}, !.enqueued = TRUE]
    /\ ret' = EncCall("decide", <<i, v>>, None)
    /\ UNCHANGED <<oracle, marks>>

\* Engine::propagate
PropagateTerms ==
    /\ state.pc = "all_solutions" /\ ~state.conflict /\ state.enqueued
    /\ state' = run_propagator(state, IntLinearNotEqValue_propagate(state.dom))
    /\ ret' = EncCall("propagate", Partial(state.dom),
                      Some(IntLinearNotEqValue_propagate(state.dom)))
    /\ UNCHANGED <<oracle, marks>>

\* The oracle finds a clause false, or every value of an undecided variable
\* forbidden by its clauses.
DeadEnd ==
    /\ state.pc = "all_solutions" /\ ~state.conflict /\ ~state.enqueued
    /\ \/ Falsified_by(state.clauses, state.dom)
       \/ \E i \in 1..NumTerms :
             /\ state.dom[i] = TermDomain
             /\ \A v \in TermDomain :
                   Falsified_by(state.clauses, [state.dom EXCEPT ![i] = {v}])
    /\ state' = [state EXCEPT !.conflict = TRUE]
    /\ ret' = EncCall("conflict", Partial(state.dom), None)
    /\ UNCHANGED <<oracle, marks>>

\* Engine::notify_backtrack to the root after a conflict
BacktrackTerms ==
    /\ state.pc = "all_solutions" /\ state.conflict
    /\ state' = [state EXCEPT !.dom = Unfixed, !.conflict = FALSE,
                              !.enqueued = FALSE]
    /\ ret' = EncCall("notify_backtrack", 0, None)
    /\ UNCHANGED <<oracle, marks>>

\* A turn of Solver::all_solutions whose solve is Satisfied: the solution is
\* reported and its no-good added.
ReportTuple ==
    /\ state.pc = "all_solutions" /\ ~state.conflict /\ ~state.enqueued
    /\ \A i \in 1..NumTerms : Cardinality(state.dom[i]) = 1
    /\ ~Falsified_by(state.clauses, state.dom)
    /\ state' = [state EXCEPT !.dom = Unfixed, !.num_sol = @ + 1,
                              !.clauses = @ \cup {Tuple(state.dom)}]
    /\ ret' = EncCall("on_sol", Tuple(state.dom), None)
    /\ marks' = marks \cup {Tuple(state.dom)}
    /\ UNCHANGED oracle

\* The turn whose solve is Unsatisfiable.
ReturnTuples ==
    /\ state.pc = "all_solutions" /\ state.dom = Unfixed
    /\ Refuted(state.clauses, state)
    /\ state' = [state EXCEPT !.pc = "returned"]
    /\ ret' = EncCall("all_solutions", << >>,
                      Some(IF state.num_sol = 0 THEN "Unsatisfiable"
                           ELSE "Complete"))
    /\ UNCHANGED <<oracle, marks>>

NextEnumerating ==
    \/ \E i \in 1..NumTerms, v \in TermDomain : DecideTerm(i, v)
    \/ PropagateTerms
    \/ DeadEnd
    \/ BacktrackTerms
    \/ ReportTuple
    \/ ReturnTuples

Enumerating == InitEnumerating /\ [][NextEnumerating]_vars

AllTuples == [1..NumTerms -> TermDomain]
\* C30 as stated: the enumeration yields the seven assignments other than
\* (2, 2, 2).
C30_AllButAllTwos ==
    state.pc = "returned"
    => /\ marks = AllTuples \ {<<2, 2, 2>>}
       /\ state.num_sol = 7

\* C30: with a, b, c in {1, 2} and 2a + b + c # 6 posted, the enumeration
\* over (a, b, c) returns Complete having reported, once each, the six
\* assignments other than (1, 2, 2) and (2, 1, 1), and it reports no other
\* assignment on the way.
C30_SixTuples ==
    /\ marks \subseteq AllTuples \ {<<1, 2, 2>>, <<2, 1, 1>>}
    /\ state.num_sol = Cardinality(marks)
    /\ state.pc = "returned"
       => /\ marks = AllTuples \ {<<1, 2, 2>>, <<2, 1, 1>>}
          /\ ret.result = Some("Complete")

\* The enumeration has returned Complete after six solutions.
C30_Witness ==
    /\ state.pc = "returned" /\ state.num_sol = 6
    /\ ret.result = Some("Complete")
    /\ <<2, 2, 2>> \in marks

\* The propagator removes the value 1 of a when b and c are 2, and fails on
\* (2, 1, 1) when a was decided last.
C30_Propagates ==
    [][ret'.call = "propagate"
       => /\ ret'.arg = <<0, 2, 2>> => state'.dom[1] = {2}
          /\ ret'.arg = <<2, 1, 1>> => state'.conflict
          /\ ret'.arg = <<1, 2, 0>> => state'.dom[3] = {1}
          /\ ret'.arg = <<1, 1, 0>> => state'.dom[3] = TermDomain]_vars


\* C34: every append to the trail, by assign_lit or by a write to a trailed
\* integer, is made with the cursor at the end of the trail: no event is
\* appended while events that goto_assign_lit undid lie beyond the cursor,
\* also after a notify_backtrack whose level is not below the current one.
C34_AppendsAtEnd ==
    [][Len(state'.trail.trail) > Len(state.trail.trail)
       => state.trail.pos = Len(state.trail.trail)]_vars


(***************************************************************************)
(* The switch to VSIDS after a number of conflicts (State::notify_backtrack *)
(* with SolverConfiguration::vsids_after).                                 *)
(***************************************************************************)
\* The number of backtracks of a search that goes on after the switch.
MaxSwitches == 3
InitSwitching ==
    /\ state = InitState
    /\ ret = Ret("new", 0, FALSE, Outcome(InitState, NoResult, << >>))
    /\ oracle = [InitOracle EXCEPT !.cap = MaxSwitches, !.levels = MaxDepth]
    /\ marks = << >>
Switching == InitSwitching /\ [][Next]_vars

\* The condition under which State::notify_backtrack switches to VSIDS, with
\* the conflict count it has just incremented.
switches(s, conflicts) ==
    /\ s.config.vsids_after # None
    /\ ~s.config.vsids_only
    /\ ~s.config.toggle_vsids
    /\ conflicts > Unwrap(s.config.vsids_after)

\* C37: on every non-artificial backtrack at which the conflict count exceeds
\* the threshold of vsids_after, VSIDS is disabled before the backtrack (the
\* debug assertion `!self.vsids` that guards the switch holds).
C37_DisabledBeforeSwitch ==
    [][(/\ state'.statistics.conflicts = state.statistics.conflicts + 1
        /\ switches(state, state'.statistics.conflicts))
       => ~state.vsids]_vars


(***************************************************************************)
(* Explanations of standing propagations.  `marks` holds, for each literal *)
(* the oracle has from the engine's propagation, the reason that           *)
(* State::register_reason had on record when the literal was returned.     *)
(***************************************************************************)
NotStanding == [standing |-> FALSE, reason |-> None]
Standing(reason) == [standing |-> TRUE, reason |-> reason]
\* The records after a callback that took the oracle from o to p and left
\* the engine in state t.
Noted(m, o, p, t) ==
    [l \in Lits |->
        IF l \notin p.ext THEN NotStanding
        ELSE IF l \notin o.ext THEN Standing(t.reason_map[l])
        ELSE m[l]]
Note == marks' = Noted(marks, oracle, oracle', state')

InitExplaining ==
    /\ state = InitState
    /\ ret = Ret("new", 0, FALSE, Outcome(InitState, NoResult, << >>))
    /\ oracle = InitOracle
    /\ marks = [l \in Lits |-> NotStanding]
NextExplaining ==
    \/ \E prop \in Props : EnqueueNowCall(prop) /\ Note
    \/ \E lits \in Batches(state, oracle) : NotifyAssignmentsCall(lits) /\ Note
    \/ NotifyNewDecisionLevelCall /\ Note
    \/ \E beh \in Behaving : PropagateCall(beh) /\ Note
    \/ AddExternalClauseCall /\ Note
    \/ \E lit \in Lits : AddReasonClauseCall(lit) /\ Note
    \/ \E new_level \in 0..MaxLevel, restart \in BOOLEAN :
           NotifyBacktrackCall(new_level, restart) /\ Note
    \/ \E beh \in Behaving : CheckSolutionCall(beh) /\ Note
Explaining == InitExplaining /\ [][NextExplaining]_vars

\* The propagation was registered as unconditional: without a reason
\* (Err(true)).  A lazy reason is none the engine has on record: its
\* conjunction is the propagator's to give when it is asked.
Unconditional(record) ==
    \/ record.reason = None
    \/ Unwrap(record.reason).kind = "Lazy"

\* C35: add_reason_clause(p) returns the bare unit clause [p] only if the
\* standing propagation of p was registered as unconditional, also when it
\* is asked for the same propagation again or after a restart to level 0.
C35_UnitOnlyIfUnconditional ==
    [][(ret'.call = "add_reason_clause" /\ ret'.result.lits = <<ret'.arg>>)
       => /\ marks[ret'.arg].standing
          /\ Unconditional(marks[ret'.arg])]_vars


(***************************************************************************)
(* The map from Boolean variables to integer variables (bool_to_int.rs),   *)
(* filled as integer variables and lazy literals are created in any order. *)
(***************************************************************************)
\* Boolean variables the oracle hands out, and integer variables created.
MaxBoolVars == 5
MaxIntVars == 2
\* Sizes of the eager range of a new integer variable (none when both of
\* its encodings are lazy), and meanings of lazy literals.
RangeSizes == 0..2
LazyMeanings == {Eq(1), Less(2)}
VarRange(start, end) == [start |-> start, end |-> end]
range_is_empty(range) == range.end < range.start

EmptyMap == [eager |-> << >>, lazy |-> {}, panic |-> FALSE]

\* slice::binary_search_by with the comparison of BoolToIntMap::get, on the
\* entries lo+1..hi.
RECURSIVE binary_search_by(_, _, _, _)
binary_search_by(eager, var, lo, hi) ==
    IF lo >= hi THEN None
    ELSE IF eager[((lo + hi) \div 2) + 1].range.start > var
    THEN binary_search_by(eager, var, lo, (lo + hi) \div 2)
    ELSE IF eager[((lo + hi) \div 2) + 1].range.end < var
    THEN binary_search_by(eager, var, ((lo + hi) \div 2) + 1, hi)
    ELSE Some(((lo + hi) \div 2) + 1)

Found(iv, meaning) == Some([iv |-> iv, meaning |-> meaning])
eager_found(eager, i) ==
    IF i = None THEN None ELSE Found(eager[Unwrap(i)].iv, None)
lazy_found(lazy, var) ==
    IF \E e \in lazy : e.var = var
    THEN Found((CHOOSE e \in lazy : e.var = var).iv,
               Some((CHOOSE e \in lazy : e.var = var).meaning))
    ELSE None

\* BoolToIntMap::get
BoolToIntMap_get(m, var) ==
    IF m.eager # << >> /\ var <= m.eager[Len(m.eager)].range.end
    THEN eager_found(m.eager, binary_search_by(m.eager, var, 0, Len(m.eager)))
    ELSE lazy_found(m.lazy, var)

\* BoolToIntMap::insert_eager
insert_eager(m, range, var) ==
    IF range_is_empty(range) THEN m
    ELSE IF m.eager = << >> \/ m.eager[Len(m.eager)].range.end < range.start
    THEN [m EXCEPT !.eager = Append(@, [range |-> range, iv |-> var])]
    ELSE [m EXCEPT !.panic = TRUE]

\* BoolToIntMap::insert_lazy
insert_lazy(m, var, iv, lit) ==
    [m EXCEPT !.lazy = @ \cup {[var |-> var, iv |-> iv, meaning |-> lit]}]

InitMapping ==
    /\ state = [bool_to_int |-> EmptyMap, next_var |-> 1, int_vars |-> 0]
    /\ ret = [call |-> "new", var |-> 0, found |-> None]
    /\ oracle = 0
    /\ marks = << >>

\* IntVar::new_in: the oracle hands out the range of the eager literals and
\* the variable gets the next index.
NewIntVar(size) ==
    /\ ~state.bool_to_int.panic
    /\ state.int_vars < MaxIntVars
    /\ state.next_var + size - 1 <= MaxBoolVars
    /\ state' = [state EXCEPT
          !.bool_to_int = insert_eager(@, VarRange(state.next_var,
                                                   state.next_var + size - 1),
                                       state.int_vars),
          !.next_var = @ + size,
          !.int_vars = @ + 1]
    /\ ret' = [call |-> "new_in", var |-> 0, found |-> None]
    /\ UNCHANGED <<oracle, marks>>

\* get_intref_lit creating a lazy literal of integer variable iv.
NewLazyLit(iv, meaning) ==
    /\ ~state.bool_to_int.panic
    /\ iv < state.int_vars
    /\ state.next_var <= MaxBoolVars
    /\ ~\E e \in state.bool_to_int.lazy : e.iv = iv /\ e.meaning = meaning
    /\ state' = [state EXCEPT
          !.bool_to_int = insert_lazy(@, state.next_var, iv, meaning),
          !.next_var = @ + 1]
    /\ ret' = [call |-> "get_intref_lit", var |-> state.next_var, found |-> None]
    /\ UNCHANGED <<oracle, marks>>

\* A Boolean variable that belongs to no integer variable.
NewBoolVar ==
    /\ ~state.bool_to_int.panic
    /\ state.next_var <= MaxBoolVars
    /\ state' = [state EXCEPT !.next_var = @ + 1]
    /\ ret' = [call |-> "new_var", var |-> state.next_var, found |-> None]
    /\ UNCHANGED <<oracle, marks>>

\* State::determine_int_event looking up the variable of a literal.
Lookup(var) ==
    /\ ~state.bool_to_int.panic
    /\ var < state.next_var
    /\ ret' = [call |-> "get", var |-> var,
               found |-> BoolToIntMap_get(state.bool_to_int, var)]
    /\ UNCHANGED <<state, oracle, marks>>

NextMapping ==
    \/ \E size \in RangeSizes : NewIntVar(size)
    \/ \E iv \in 0..(MaxIntVars - 1), meaning \in LazyMeanings :
           NewLazyLit(iv, meaning)
    \/ NewBoolVar
    \/ \E var \in 1..MaxBoolVars : Lookup(var)
Mapping == InitMapping /\ [][NextMapping]_vars

\* What was inserted for a variable: the lazy literal's integer variable and
\* meaning, the integer variable of the eager range that holds it.
Inserted(m, var) ==
    IF \E e \in m.lazy : e.var = var THEN lazy_found(m.lazy, var)
    ELSE IF \E k \in DOMAIN m.eager :
               m.eager[k].range.start <= var /\ var <= m.eager[k].range.end
    THEN Found(m.eager[CHOOSE k \in DOMAIN m.eager :
                           m.eager[k].range.start <= var
                           /\ var <= m.eager[k].range.end].iv, None)
    ELSE None

\* C36: a lookup in the map returns the integer variable and the stored
\* meaning for every lazily created literal, and the integer variable of the
\* range for every eagerly created variable, in whatever order the integer
\* variables and the lazy literals were created.
C36_LookupFinds ==
    ret.call = "get" => ret.found = Inserted(state.bool_to_int, ret.var)


(***************************************************************************)
(* The Boolean brancher (branchers.rs) deciding for an oracle that opens a *)
(* level for each decision, assigns literals of its own and backtracks.    *)
(* The solver has Boolean variables only; the brancher's `next` is the     *)
(* first trailed integer after Trail::CURRENT_BRANCHER.                    *)
(***************************************************************************)
BrancherNext == 1
\* BoolBrancher::vars, in the order given.
BrancherVars == <<1, 2, 3>>
\* ValueSelection
ValueSelections == {"IndomainMin", "IndomainMax", "OutdomainMin", "OutdomainMax"}

\* Trail::get_bool_val of a literal view.
get_bool_val(t, lit) == get_sat_value(t, lit)

\* The loop of BoolBrancher::decide: the index (from 0) of the first variable
\* from `begin` on without a value, if any.
Unassigned_from(t, vs, begin) ==
    {k \in begin..(Len(vs) - 1) : get_bool_val(t, vs[k + 1]) = None}
first_loc(t, vs, begin) ==
    IF Unassigned_from(t, vs, begin) = {} THEN None
    ELSE Some(CHOOSE k \in Unassigned_from(t, vs, begin) :
                \A j \in Unassigned_from(t, vs, begin) : k <= j)
value_lit(val_sel, var) ==
    IF val_sel \in {"IndomainMin", "OutdomainMax"} THEN 0 - var ELSE var

\* BoolBrancher::decide: the trail afterwards and the decision.
decide_at(t, b, loc) ==
    IF loc # None
    THEN [t |-> set_trailed_int(t, b.next, Unwrap(loc) + 1),
          decision |-> Select(value_lit(b.val_sel, b.vars[Unwrap(loc) + 1]))]
    ELSE [t |-> set_trailed_int(t, b.next, Len(b.vars)), decision |-> Exhausted]
BoolBrancher_decide(t, b) ==
    IF get_trailed_int(t, b.next) = Len(b.vars)
    THEN [t |-> t, decision |-> Exhausted]
    ELSE decide_at(t, b, first_loc(t, b.vars, get_trailed_int(t, b.next)))

\* state: the trail and the brancher; oracle: what it does next, the literal
\* it was told to decide on (0 for none) and the backtracks it has made.
InitBranching ==
    /\ \E val_sel \in ValueSelections :
          state = [trail |-> [InitTrail EXCEPT
                                !.int_value = [i \in TrailedInts |-> 0]],
                   brancher |-> [vars |-> BrancherVars, val_sel |-> val_sel,
                                 next |-> BrancherNext]]
    /\ ret = [call |-> "new", decision |-> Exhausted]
    /\ oracle = [step |-> "quiet", pending |-> 0, backtracks |-> 0]
    /\ marks = << >>

\* The oracle asks for a decision when it has nothing to propagate.
BrancherDecide ==
    /\ oracle.step = "quiet" /\ ~state.trail.panic
    /\ decision_level(state.trail) < MaxLevel
    /\ state' = [state EXCEPT
          !.trail = BoolBrancher_decide(state.trail, state.brancher).t]
    /\ ret' = [call |-> "decide",
               decision |-> BoolBrancher_decide(state.trail, state.brancher).decision]
    /\ oracle' = [oracle EXCEPT
          !.step = IF ret'.decision.kind = "Select" THEN "level" ELSE "quiet",
          !.pending = ret'.decision.lit]
    /\ UNCHANGED marks

\* It opens a decision level for the literal selected,
OpenLevel ==
    /\ oracle.step = "level" /\ ~state.trail.panic
    /\ state' = [state EXCEPT !.trail = Trail_notify_new_decision_level(@)]
    /\ ret' = [call |-> "notify_new_decision_level", decision |-> ret.decision]
    /\ oracle' = [oracle EXCEPT !.step = "assign"]
    /\ UNCHANGED marks

\* and notifies its assignment.
AssignDecision ==
    /\ oracle.step = "assign" /\ ~state.trail.panic
    /\ state' = [state EXCEPT !.trail = assign_lit(@, oracle.pending)]
    /\ ret' = [call |-> "notify_assignments", decision |-> ret.decision]
    /\ oracle' = [oracle EXCEPT !.step = "quiet", !.pending = 0]
    /\ UNCHANGED marks

\* The oracle assigns a literal that its clauses imply.
OracleAssigns(lit) ==
    /\ oracle.step = "quiet" /\ ~state.trail.panic
    /\ get_sat_value(state.trail, lit) = None
    /\ state' = [state EXCEPT !.trail = assign_lit(@, lit)]
    /\ ret' = [call |-> "notify_assignments", decision |-> ret.decision]
    /\ UNCHANGED <<oracle, marks>>

\* The oracle backtracks after a conflict, or restarts.
OracleBacktracks(level) ==
    /\ oracle.step = "quiet" /\ ~state.trail.panic
    /\ oracle.backtracks < MaxBacktracks
    /\ level < decision_level(state.trail)
    /\ state' = [state EXCEPT !.trail = Trail_notify_backtrack(@, level)]
    /\ ret' = [call |-> "notify_backtrack", decision |-> ret.decision]
    /\ oracle' = [oracle EXCEPT !.backtracks = @ + 1]
    /\ UNCHANGED marks

NextBranching ==
    \/ BrancherDecide
    \/ OpenLevel
    \/ AssignDecision
    \/ \E lit \in Lits : OracleAssigns(lit)
    \/ \E level \in 0..MaxLevel : OracleBacktracks(level)
Branching == InitBranching /\ [][NextBranching]_vars

\* C38: the Boolean brancher never passes over a variable without a value:
\* it selects the first variable of its list that has none, and answers
\* Exhausted only if every variable of the list has a value, also after a
\* backtrack to the level at which an earlier decision was requested.
C38_FirstUnassigned ==
    [][ret'.call = "decide"
       => IF first_loc(state.trail, state.brancher.vars, 0) = None
          THEN ret'.decision = Exhausted
          ELSE /\ ret'.decision.kind = "Select"
               /\ LitVar(ret'.decision.lit) =
                    state.brancher.vars[
                       Unwrap(first_loc(state.trail, state.brancher.vars, 0)) + 1]]_vars


(***************************************************************************)
(* The integer brancher (branchers.rs) deciding on three integer variables *)
(* whose bounds the oracle tightens and restores.  Trailed values (the     *)
(* bounds and the brancher's `next`) are restored on backtrack to what     *)
(* they were when the level was opened (`marks`); IntBrancher::vars is a   *)
(* field of the brancher and is not.                                       *)
(***************************************************************************)
\* The variables in the order given to IntBrancher::new_in, and the largest
\* value of their domains 0..MaxBound.
GivenVars == <<0, 1, 2>>
MaxBound == 2
VariableSelections ==
    {"AntiFirstFail", "FirstFail", "InputOrder", "Largest", "Smallest"}

\* The closure `score` of IntBrancher::decide.
score(var_sel, s, var) ==
    CASE var_sel \in {"AntiFirstFail", "FirstFail"} -> s.ub[var] - s.lb[var]
      [] var_sel = "InputOrder" -> 0
      [] var_sel = "Largest" -> s.ub[var]
      [] OTHER -> s.lb[var]
\* The closure `is_better`.
is_better(var_sel, incumbent_score, new_score) ==
    IF var_sel \in {"AntiFirstFail", "Largest"}
    THEN incumbent_score < new_score
    ELSE incumbent_score > new_score

Swapped(vs, a, b) == [vs EXCEPT ![a] = vs[b], ![b] = vs[a]]
Scored(var, sc) == Some([var |-> var, score |-> sc])

\* The loop of IntBrancher::decide from index i (from 0) on: the list, the
\* index of the first unfixed variable and the selection at its end.
RECURSIVE select_from(_, _, _, _, _)
select_from(s, vs, i, first_unfixed, selection) ==
    IF i >= Len(vs)
    THEN [vars |-> vs, first_unfixed |-> first_unfixed, selection |-> selection]
    ELSE IF s.lb[vs[i + 1]] = s.ub[vs[i + 1]]
    THEN select_from(s, Swapped(vs, first_unfixed + 1, i + 1), i + 1,
                     first_unfixed + 1, selection)
    ELSE IF selection # None
    THEN select_from(s, vs, i + 1, first_unfixed,
                     IF is_better(s.var_sel, Unwrap(selection).score,
                                  score(s.var_sel, s, vs[i + 1]))
                     THEN Scored(vs[i + 1], score(s.var_sel, s, vs[i + 1]))
                     ELSE selection)
    ELSE IF s.var_sel = "InputOrder"
    THEN [vars |-> vs, first_unfixed |-> first_unfixed,
          selection |-> Scored(vs[i + 1], 0)]
    ELSE select_from(s, vs, i + 1, first_unfixed,
                     Scored(vs[i + 1], score(s.var_sel, s, vs[i + 1])))

\* The meaning of the literal that IntBrancher::decide asks get_int_lit for.
decision_meaning(s, var) ==
    CASE s.val_sel = "IndomainMin" -> Less(s.lb[var] + 1)
      [] s.val_sel = "IndomainMax" -> GreaterEq(s.ub[var])
      [] s.val_sel = "OutdomainMin" -> GreaterEq(s.lb[var] + 1)
      [] OTHER -> Less(s.ub[var])

\* IntBrancher::decide: the brancher and the trail afterwards and the
\* decision, None for Exhausted (r is what the loop returned).
IntBrancher_decided(s, r) ==
    [s |-> [s EXCEPT !.vars = r.vars, !.next = r.first_unfixed],
     decision |-> IF r.selection = None THEN None
                  ELSE Some([var |-> Unwrap(r.selection).var,
                             meaning |-> decision_meaning(s, Unwrap(r.selection).var)])]
IntBrancher_decide(s) ==
    IF s.next = Len(s.vars) THEN [s |-> s, decision |-> None]
    ELSE IntBrancher_decided(s, select_from(s, s.vars, s.next, s.next, None))

\* The bounds after a literal with the given meaning was assigned.
Bounded(s, var, meaning) ==
    IF meaning.m = "Less"
    THEN [s EXCEPT !.ub[var] = IF meaning.v - 1 < @ THEN meaning.v - 1 ELSE @]
    ELSE [s EXCEPT !.lb[var] = IF meaning.v > @ THEN meaning.v ELSE @]
Trailed(s) == [lb |-> s.lb, ub |-> s.ub, next |-> s.next]
Restored(s, m) == [s EXCEPT !.lb = m.lb, !.ub = m.ub, !.next = m.next]

InitScoring ==
    /\ \E var_sel \in VariableSelections, val_sel \in ValueSelections :
          state = [vars |-> GivenVars, var_sel |-> var_sel, val_sel |-> val_sel,
                   next |-> 0,
                   lb |-> [v \in Range(GivenVars) |-> 0],
                   ub |-> [v \in Range(GivenVars) |-> MaxBound]]
    /\ ret = [call |-> "new", decision |-> None]
    /\ oracle = [step |-> "quiet", backtracks |-> 0]
    /\ marks = << >>

\* The oracle asks for a decision,
IntDecide ==
    /\ oracle.step = "quiet" /\ Len(marks) < MaxLevel
    /\ state' = IntBrancher_decide(state).s
    /\ ret' = [call |-> "decide", decision |-> IntBrancher_decide(state).decision]
    /\ oracle' = [oracle EXCEPT
          !.step = IF ret'.decision = None THEN "quiet" ELSE "level"]
    /\ UNCHANGED marks

\* opens a decision level and assigns the literal selected.
TakeDecision ==
    /\ oracle.step = "level"
    /\ state' = Bounded(state, Unwrap(ret.decision).var,
                        Unwrap(ret.decision).meaning)
    /\ ret' = [call |-> "notify_assignments", decision |-> ret.decision]
    /\ oracle' = [oracle EXCEPT !.step = "quiet"]
    /\ marks' = Append(marks, Trailed(state))

\* The oracle assigns a literal that tightens a bound of a variable.
Tighten(var, meaning) ==
    /\ oracle.step = "quiet"
    /\ Bounded(state, var, meaning) # state
    /\ Bounded(state, var, meaning).lb[var] <= Bounded(state, var, meaning).ub[var]
    /\ state' = Bounded(state, var, meaning)
    /\ ret' = [call |-> "notify_assignments", decision |-> ret.decision]
    /\ UNCHANGED <<oracle, marks>>

\* The oracle backtracks.
BacktrackTo(level) ==
    /\ oracle.step = "quiet"
    /\ oracle.backtracks < MaxBacktracks
    /\ level < Len(marks)
    /\ state' = Restored(state, marks[level + 1])
    /\ ret' = [call |-> "notify_backtrack", decision |-> ret.decision]
    /\ oracle' = [oracle EXCEPT !.backtracks = @ + 1]
    /\ marks' = SubSeq(marks, 1, level)

NextScoring ==
    \/ IntDecide
    \/ TakeDecision
    \/ \E var \in Range(GivenVars), v \in 1..MaxBound :
          Tighten(var, Less(v)) \/ Tighten(var, GreaterEq(v))
    \/ \E level \in 0..MaxLevel : BacktrackTo(level)
Scoring == InitScoring /\ [][NextScoring]_vars

\* The unfixed variables, those of the best score, and the first of these in
\* the order given.
UnfixedVars(s) == {v \in Range(GivenVars) : s.lb[v] # s.ub[v]}
BestVars(s) ==
    {v \in UnfixedVars(s) :
        \A w \in UnfixedVars(s) :
           ~is_better(s.var_sel, score(s.var_sel, s, v), score(s.var_sel, s, w))}
FirstGiven(vs) ==
    GivenVars[CHOOSE k \in DOMAIN GivenVars :
                 /\ GivenVars[k] \in vs
                 /\ \A j \in 1..(k - 1) : GivenVars[j] \notin vs]

\* C32: with FirstFail, AntiFirstFail, Smallest or Largest, every decide call
\* selects, among the unfixed variables of the best score, the one that
\* comes first in the order in which the variables were given.
C32_TieToFirstGiven ==
    [][(/\ ret'.call = "decide"
        /\ state.var_sel # "InputOrder"
        /\ UnfixedVars(state) # {})
       => /\ ret'.decision # None
          /\ Unwrap(ret'.decision).var = FirstGiven(BestVars(state))]_vars


(***************************************************************************)
(* Comparisons of integer decisions with a value (lib.rs, IntDecision).    *)
(* The decisions compared are a variable and the constants                 *)
(* -MaxConst..MaxConst.                                                    *)
(***************************************************************************)
MaxConst == 3
ConstValues == (0 - MaxConst)..MaxConst
\* IntDecisionInner and BoolDecisionInner
IntDecisionVar(x) == [kind |-> "Var", x |-> x, c |-> 0]
IntDecisionConst(c) == [kind |-> "Const", x |-> 0, c |-> c]
BoolDecisionConst(b) == [kind |-> "Const", b |-> b, x |-> 0, i |-> 0]
BoolDecisionInt(kind, x, i) == [kind |-> kind, b |-> FALSE, x |-> x, i |-> i]

\* impl Not for BoolDecision
BoolDecision_not(d) ==
    CASE d.kind = "Const" -> BoolDecisionConst(~d.b)
      [] d.kind = "IntEq" -> BoolDecisionInt("IntNotEq", d.x, d.i)
      [] d.kind = "IntGreaterEq" -> BoolDecisionInt("IntLess", d.x, d.i)
      [] d.kind = "IntLess" -> BoolDecisionInt("IntGreaterEq", d.x, d.i)
      [] OTHER -> BoolDecisionInt("IntEq", d.x, d.i)

\* IntDecision::lt
IntDecision_lt(d, v) ==
    IF d.kind = "Var" THEN BoolDecisionInt("IntLess", d.x, v)
    ELSE BoolDecisionConst(d.c <= v)
\* IntDecision::geq
IntDecision_geq(d, v) == BoolDecision_not(IntDecision_lt(d, v))
\* IntDecision::gt
IntDecision_gt(d, v) == IntDecision_geq(d, v + 1)
\* IntDecision::leq
IntDecision_leq(d, v) == IntDecision_lt(d, v + 1)

Comparisons == {"lt", "geq", "gt", "leq"}
compared(op, d, v) ==
    CASE op = "lt" -> IntDecision_lt(d, v)
      [] op = "geq" -> IntDecision_geq(d, v)
      [] op = "gt" -> IntDecision_gt(d, v)
      [] OTHER -> IntDecision_leq(d, v)

InitComparing ==
    /\ state \in {[d |-> d, v |-> v] :
                    d \in {IntDecisionVar(0)}
                          \cup {IntDecisionConst(c) : c \in ConstValues},
                    v \in ConstValues}
    /\ ret = [call |-> "new", result |-> BoolDecisionConst(FALSE)]
    /\ oracle = 0
    /\ marks = << >>
Compare(op) ==
    /\ ret.call = "new"
    /\ ret' = [call |-> op, result |-> compared(op, state.d, state.v)]
    /\ UNCHANGED <<state, oracle, marks>>
NextComparing == \E op \in Comparisons : Compare(op)
Comparing == InitComparing /\ [][NextComparing]_vars

\* What a comparison of the constant c with v is.
Holds(op, c, v) ==
    CASE op = "lt" -> c < v
      [] op = "geq" -> c >= v
      [] op = "gt" -> c > v
      [] OTHER -> c <= v

\* C33: lt(v) on the constant c is the constant true exactly when c < v, and
\* geq, gt and leq, which are derived from it, are the constants of c >= v,
\* c > v and c <= v.
C33_ConstantComparison ==
    (ret.call \in Comparisons /\ state.d.kind = "Const")
    => ret.result = BoolDecisionConst(Holds(ret.call, state.d.c, state.v))


(***************************************************************************)
(* Linear transformations reversed on sets of values                       *)
(* (LinearTransform::rev_transform_int_set).  A set of values is kept as   *)
(* the list of its maximal runs; collecting ranges into such a list gives  *)
(* the union of the ranges.                                                *)
(***************************************************************************)
\* IntSetVal::iter: the maximal runs of consecutive values of the set.
runs_of(mask) ==
    {VarRange(a, b) : a \in mask, b \in mask} \cap
    {r \in [start : mask, end : mask] :
        /\ r.start <= r.end
        /\ \A x \in r.start..r.end : x \in mask
        /\ (r.start - 1) \notin mask /\ (r.end + 1) \notin mask}

\* The closure `get_val` of rev_transform_int_set.
get_val(meaning) == IF meaning.m = "GreaterEq" THEN meaning.v ELSE meaning.v - 1
\* `a.min(b)..=a.max(b)`
min_to_max(a, b) == IF a <= b THEN a..b ELSE b..a
\* The closure mapped over the runs.
rev_run(t, r) ==
    min_to_max(get_val(Unwrap(rev_transform_lit(t, GreaterEq(r.start)).reason)),
               get_val(Unwrap(rev_transform_lit(t, Less(r.end + 1)).reason)))
\* LinearTransform::rev_transform_int_set
rev_transform_int_set(t, mask) == UNION {rev_run(t, r) : r \in runs_of(mask)}

Masks == SUBSET ((0 - MaxVal)..MaxVal)

InitReversing ==
    /\ \E t \in Transforms, mask \in Masks :
          state = [transformer |-> t, mask |-> mask]
    /\ ret = [call |-> "new", values |-> {}]
    /\ oracle = 0
    /\ marks = << >>
RevTransformIntSet ==
    /\ ret.call = "new"
    /\ ret' = [call |-> "rev_transform_int_set",
               values |-> rev_transform_int_set(state.transformer, state.mask)]
    /\ UNCHANGED <<state, oracle, marks>>
NextReversing == RevTransformIntSet
Reversing == InitReversing /\ [][NextReversing]_vars

\* The values that the transformation takes into the set.
Preimage(t, mask) ==
    {x \in (0 - (MaxVal + MaxOffset))..(MaxVal + MaxOffset) :
        transform(t, x) \in mask}

\* C39: rev_transform_int_set of a set contains exactly the values that the
\* transformation takes into the set.
C39_ExactPreimage ==
    ret.call = "rev_transform_int_set"
    => ret.values = Preimage(state.transformer, state.mask)


(***************************************************************************)
(* The element constraint over an array of Boolean constants (lib.rs,      *)
(* impl ElementConstraint for bool), which becomes a membership of the     *)
(* index in a set; the set is the union of the ranges collected.           *)
(***************************************************************************)
MaxArray == 5
Arrays == UNION {[1..n -> BOOLEAN] : n \in 1..MaxArray}

\* The loop over the array from index i (from 0) on, and what follows it:
\* the ranges pushed.
RECURSIVE element_ranges(_, _, _, _)
element_ranges(array, i, start, ranges) ==
    IF i >= Len(array)
    THEN (IF start # None
          THEN Append(ranges, VarRange(Unwrap(start), Len(array)))
          ELSE ranges)
    ELSE IF array[i + 1] /\ start = None
    THEN element_ranges(array, i + 1, Some(i), ranges)
    ELSE IF ~array[i + 1] /\ start # None
    THEN element_ranges(array, i + 1, None,
                        Append(ranges, VarRange(Unwrap(start), i)))
    ELSE element_ranges(array, i + 1, start, ranges)

\* RangeList::from_iter
RangeList_from_iter(ranges) ==
    UNION {ranges[k].start..ranges[k].end : k \in DOMAIN ranges}

\* ElementConstraint::element_constraint for bool: the set of the
\* constraint; `panic` stands for the failed assert_ne!.
element_constraint_of(ranges) ==
    [set |-> RangeList_from_iter(ranges), panic |-> ranges = << >>]
element_constraint(array) ==
    element_constraint_of(element_ranges(array, 0, None, << >>))

InitConverting ==
    /\ state \in {[array |-> a] : a \in Arrays}
    /\ ret = [call |-> "new", set |-> {}, panic |-> FALSE]
    /\ oracle = 0
    /\ marks = << >>
ElementConstraint ==
    /\ ret.call = "new"
    /\ ret' = [call |-> "element_constraint",
               set |-> element_constraint(state.array).set,
               panic |-> element_constraint(state.array).panic]
    /\ UNCHANGED <<state, oracle, marks>>
NextConverting == ElementConstraint
Converting == InitConverting /\ [][NextConverting]_vars

\* C40: the element constraint over an array of Boolean constants becomes the
\* membership of the index in the set that contains i exactly when entry i of
\* the array is true.
C40_SetOfTrueEntries ==
    ret.call = "element_constraint"
    => /\ ~ret.panic
       /\ ret.set = {i \in 0..(Len(state.array) - 1) : state.array[i + 1]}


(***************************************************************************)
(* Reified integer linear constraints (constraints/int_linear.rs): a       *)
(* constraint over the views +-x and +-y, reified or half-reified by the   *)
(* Boolean b, is simplified and, if it remains, posted as propagators.  A  *)
(* constraint added to the model holds in every solution, and a propagator *)
(* enforces its relation.                                                  *)
(***************************************************************************)
LinVars == {"x", "y"}
\* Values 0..MaxLinVal of the variables and right-hand sides.
MaxLinVal == 2
LinOperators == {"Equal", "LessEq", "NotEqual"}
LinTerm(var, negated) == [var |-> var, neg |-> negated]
\* impl Neg for IntDecision
neg_term(v) == LinTerm(v.var, ~v.neg)

\* The value of a view under an assignment, and its bounds in the model.
view_val(a, v) == IF v.neg THEN 0 - a[v.var] ELSE a[v.var]
view_lb(s, v) == IF v.neg THEN 0 - s.ub[v.var] ELSE s.lb[v.var]
view_ub(s, v) == IF v.neg THEN 0 - s.lb[v.var] ELSE s.ub[v.var]
RECURSIVE sum_of(_, _, _)
sum_of(Op(_, _), x, terms) ==
    IF terms = << >> THEN 0 ELSE Op(x, Head(terms)) + sum_of(Op, x, Tail(terms))

\* IntLinear::negate
IntLinear_negate(lin) ==
    CASE lin.operator = "Equal" -> [lin EXCEPT !.operator = "NotEqual"]
      [] lin.operator = "LessEq" ->
           [lin EXCEPT !.terms = [k \in DOMAIN lin.terms |-> neg_term(lin.terms[k])],
                       !.rhs = 0 - lin.rhs]
      [] OTHER -> [lin EXCEPT !.operator = "Equal"]

\* SimplificationActions::get_bool_val of the reifying view (r is b itself).
\* SimplificationActions::get_int_val: the value of a fixed view.
is_fixed(s, v) == s.lb[v.var] = s.ub[v.var]
RECURSIVE unfixed_of(_, _)
unfixed_of(s, terms) ==
    IF terms = << >> THEN << >>
    ELSE IF is_fixed(s, Head(terms)) THEN unfixed_of(s, Tail(terms))
    ELSE <<Head(terms)>> \o unfixed_of(s, Tail(terms))
RECURSIVE fixed_of(_, _)
fixed_of(s, terms) ==
    IF terms = << >> THEN << >>
    ELSE IF is_fixed(s, Head(terms))
    THEN <<Head(terms)>> \o fixed_of(s, Tail(terms))
    ELSE fixed_of(s, Tail(terms))
\* The constraint after `Filter known values from the terms`.
filtered(s, lin) ==
    [lin EXCEPT !.terms = unfixed_of(s, lin.terms),
                !.rhs = @ - sum_of(view_lb, s, fixed_of(s, lin.terms))]

\* `known_result` of simplify: whether the constraint is known to hold or
\* not to hold (None if neither).
known_result(operator, rhs, lb_sum, ub_sum) ==
    CASE operator = "Equal" /\ (lb_sum > rhs \/ ub_sum < rhs) -> Some(FALSE)
      [] operator = "Equal" /\ ~(lb_sum > rhs \/ ub_sum < rhs)
           /\ lb_sum = ub_sum -> Some(TRUE)
      [] operator = "LessEq" /\ ub_sum <= rhs -> Some(TRUE)
      [] operator = "LessEq" /\ ~(ub_sum <= rhs) /\ lb_sum > rhs -> Some(FALSE)
      [] operator = "NotEqual" /\ (lb_sum > rhs \/ ub_sum < rhs) -> Some(TRUE)
      [] operator = "NotEqual" /\ ~(lb_sum > rhs \/ ub_sum < rhs)
           /\ lb_sum = ub_sum -> Some(FALSE)
      [] OTHER -> None

Unreified(lin) == [lin EXCEPT !.reif = None]
\* simplify from `Collect variable bounds` on, for a constraint with a
\* reification and unknown b: b is set when the result is known.
simplify_known(s, lin, known) ==
    IF known = None
    THEN [s EXCEPT !.lin = lin, !.status = "Fixpoint"]
    ELSE [s EXCEPT !.lin = lin, !.status = "Subsumed",
                   !.b = IF Unwrap(lin.reif) = "ImpliedBy" /\ Unwrap(known)
                         THEN @ ELSE known]
simplify_filtered(s, lin) ==
    simplify_known(s, lin,
                   known_result(lin.operator, lin.rhs,
                                sum_of(view_lb, s, lin.terms),
                                sum_of(view_ub, s, lin.terms)))

\* IntLinear::simplify of a constraint with a reification.
IntLinear_simplify(s) ==
    IF s.b = Some(TRUE)
    THEN [s EXCEPT !.added = @ \cup {Unreified(s.lin)}, !.status = "Subsumed"]
    ELSE IF s.b = Some(FALSE)
    THEN [s EXCEPT
            !.added = IF Unwrap(s.lin.reif) = "ReifiedBy"
                      THEN @ \cup {Unreified(IntLinear_negate(s.lin))}
                      ELSE @,
            !.status = "Subsumed"]
    ELSE simplify_filtered(s, filtered(s, s.lin))

\* A propagator posted: terms and bound or value, and the polarity of b that
\* implies it.
Propagator(kind, terms, rhs, r) ==
    [kind |-> kind, terms |-> terms, rhs |-> rhs, r |-> r]
Negated(terms) == [k \in DOMAIN terms |-> neg_term(terms[k])]
\* IntLinear::to_solver of a constraint with a reification (r is b).
IntLinear_to_solver(lin) ==
    CASE lin.operator = "Equal" ->
           (IF Unwrap(lin.reif) = "ReifiedBy"
            THEN {Propagator("NotEqImp", lin.terms, lin.rhs, FALSE)} ELSE {})
           \cup {Propagator("LessEqImp", Negated(lin.terms), 0 - lin.rhs, TRUE),
                 Propagator("LessEqImp", lin.terms, lin.rhs, TRUE)}
      [] lin.operator = "LessEq" ->
           (IF Unwrap(lin.reif) = "ReifiedBy"
            THEN {Propagator("LessEqImp", Negated(lin.terms),
                             0 - (lin.rhs + 1), FALSE)}
            ELSE {})
           \cup {Propagator("LessEqImp", lin.terms, lin.rhs, TRUE)}
      [] OTHER ->
           (IF Unwrap(lin.reif) = "ReifiedBy"
            THEN {Propagator("LessEqImp", lin.terms, lin.rhs, FALSE),
                  Propagator("LessEqImp", Negated(lin.terms), 0 - lin.rhs, FALSE)}
            ELSE {})
           \cup {Propagator("NotEqImp", lin.terms, lin.rhs, TRUE)}

LinBounds == {<<l, u>> \in (0..MaxLinVal) \X (0..MaxLinVal) : l <= u}
IntLinears ==
    {[terms |-> <<LinTerm("x", nx), LinTerm("y", ny)>>, operator |-> op,
      rhs |-> rhs, reif |-> Some(reif)] :
        nx \in BOOLEAN, ny \in BOOLEAN, op \in LinOperators,
        rhs \in (0 - MaxLinVal)..MaxLinVal, reif \in {"ReifiedBy", "ImpliedBy"}}

\* state: the constraint, the bounds of x and y and the value of b in the
\* model, the constraints added and the propagators posted; marks: the
\* constraint as it was stated.
InitReifying ==
    /\ \E lin \in IntLinears, bx \in LinBounds, by \in LinBounds,
          b \in {None, Some(FALSE), Some(TRUE)} :
          /\ state = [lin |-> lin, lb |-> [v \in LinVars |-> IF v = "x" THEN bx[1] ELSE by[1]],
                      ub |-> [v \in LinVars |-> IF v = "x" THEN bx[2] ELSE by[2]],
                      b |-> b, added |-> {}, posted |-> {}, status |-> "new"]
          /\ marks = lin
    /\ ret = [call |-> "new"]
    /\ oracle = 0

Simplify ==
    /\ state.status = "new"
    /\ state' = IntLinear_simplify(state)
    /\ ret' = [call |-> "simplify"]
    /\ UNCHANGED <<oracle, marks>>
ToSolver ==
    /\ state.status = "Fixpoint"
    /\ state' = [state EXCEPT !.posted = IntLinear_to_solver(state.lin),
                              !.status = "Posted"]
    /\ ret' = [call |-> "to_solver"]
    /\ UNCHANGED <<oracle, marks>>
NextReifying == Simplify \/ ToSolver
Reifying == InitReifying /\ [][NextReifying]_vars

\* Whether the linear relation holds under an assignment.
LinHolds(lin, a) ==
    CASE lin.operator = "Equal" -> sum_of(view_val, a, lin.terms) = lin.rhs
      [] lin.operator = "LessEq" -> sum_of(view_val, a, lin.terms) <= lin.rhs
      [] OTHER -> sum_of(view_val, a, lin.terms) # lin.rhs
\* Whether a propagator accepts an assignment.
Accepts(p, a) ==
    (a.b = p.r)
    => IF p.kind = "LessEqImp" THEN sum_of(view_val, a, p.terms) <= p.rhs
       ELSE sum_of(view_val, a, p.terms) # p.rhs
\* The solutions: the assignments within the bounds that the constraints
\* added hold for and that every propagator accepts.
LinSolutions(s) ==
    {a \in [x : s.lb["x"]..s.ub["x"], y : s.lb["y"]..s.ub["y"], b : BOOLEAN] :
        /\ s.b # None => a.b = Unwrap(s.b)
        /\ \A c \in s.added : LinHolds(c, a)
        /\ \A p \in s.posted : Accepts(p, a)}

\* C31: once a constraint reified by b is dealt with (subsumed by simplify,
\* or posted), in every solution it holds if and only if b is true; also
\* when b was false at simplify and the constraint was replaced by its
\* negation.
C31_ReifiedIff ==
    (state.status \in {"Subsumed", "Posted"} /\ marks.reif = Some("ReifiedBy"))
    => \A a \in LinSolutions(state) : a.b <=> LinHolds(marks, a)

====
